---- MODULE Spec2Model ----
(***************************************************************************)
(* Model of the OCR classifier's detection core (package service):         *)
(* token counting, confidence aggregation (detectTextSingle), the          *)
(* preprocessor's size decision, and the two-phase rotation search         *)
(* (DetectText, detectTextWithRotations, rotationWorker).                  *)
(*                                                                         *)
(* Numbers.  Confidences are float64 in the source; here they are exact    *)
(* rationals <<n, d>> in lowest terms (d > 0).  A scale factor is held as   *)
(* the rational SQUARE of the factor, so that sqrt(3MP/pixels) is exact:   *)
(* 4.0 is <<16,1>>, 1.5 is <<9,4>>, 0 is <<0,1>>.                          *)
(***************************************************************************)
EXTENDS Integers, Sequences, FiniteSets, TLC

\* ---------------------------------------------------------------- bounds
\* Number of candidate angles of phase2Angles a search dispatches.
MaxAngles == 2
\* regions in one enumerated answer of the engine
MaxBoxes == 2
\* candidate angles dispatched when the worker pool is saturated
MaxPoolAngles == 5
\* runes in an enumerated region text
MaxWordLen == 3

\* ------------------------------------------------------------- rationals
\* A value that is used several times is bound by x \in {e} and picked with
\* CHOOSE, so that e is evaluated once.
RECURSIVE GCD(_, _)
GCD(a, b) ==
    IF b = 0 THEN a
    ELSE CHOOSE g \in { GCD(p[1], p[2]) : p \in {<<b, a % b>>} } : TRUE

Abs(x) == IF x < 0 THEN 0 - x ELSE x

\* n/d in lowest terms, d > 0
Q(n, d) ==
    CHOOSE q \in { IF p[1] = 0 THEN <<0, 1>>
                   ELSE CHOOSE r \in { <<p[1] \div g, p[2] \div g>> :
                                         g \in {GCD(Abs(p[1]), p[2])} } : TRUE :
                   p \in {<<n, d>>} } : TRUE

QLt(a, b) == a[1] * b[2] < b[1] * a[2]
QGt(a, b) == QLt(b, a)
QGe(a, b) == ~QLt(a, b)
QLe(a, b) == ~QLt(b, a)
Zero == <<0, 1>>
One  == <<1, 1>>

\* the two "if x > 1.0 { x = 1.0 }; if x < 0 { x = 0 }" clamps
Clamp01(x) ==
    LET hi == IF QGt(x, One) THEN One ELSE x
    IN  IF QLt(hi, Zero) THEN Zero ELSE hi

\* -------------------------------------------------------------- constants
confidenceThreshold == Q(66, 100)
numWorkers == 4

phase2Angles ==
    << 350, 355, 5, 10,
       80, 85, 90, 95, 100,
       170, 175, 180, 185, 190,
       260, 265, 270, 275, 280 >>

minDimension    == 32
halfMegapixel   == 524288
oneMegapixel    == 2 * halfMegapixel
twoMegapixels   == 2 * oneMegapixel
threeMegapixels == 3 * oneMegapixel

Nil == "nil"
\* a nil *ClassifierResult
NilResult == [nil |-> TRUE]

QAdd(a, b) == Q(a[1] * b[2] + b[1] * a[2], a[2] * b[2])
QMul(a, b) == Q(a[1] * b[1], a[2] * b[2])
\* a / b for b > 0
QDiv(a, b) == Q(a[1] * b[2], a[2] * b[1])
QInt(n) == <<n, 1>>

\* ------------------------------------------------------------ characters
\* A string is a sequence of runes; a rune is a one-character string, or the
\* code point name of a non-ASCII rune.
CyrillicYa   == "U+044F"
UnicodeMinus == "U+2212"
DegreeSign   == "U+00B0"
EuroSign     == "U+20AC"
\* CYRILLIC THOUSANDS SIGN: category So, script Cyrillic
CyrillicThousands == "U+0482"

\* members of the script tables unicode.Latin and unicode.Cyrillic
LatinRunes    == {"a", "b", "e", "h", "l", "o", "z"}
CyrillicRunes == {CyrillicYa, CyrillicThousands}
DigitRunes    == {"0", "1", "3", "4", "5"}
CurrencyRunes == {"$", EuroSign}

\* unicode.Is(unicode.Latin, r) || unicode.Is(unicode.Cyrillic, r)
IsLetter(r)   == r \in LatinRunes \cup CyrillicRunes
IsDigit(r)    == r \in DigitRunes
IsCurrency(r) == r \in CurrencyRunes

\* mutant: a sign counts only as the first rune of the text
TokenAtSignLeading(runes, i) ==
    LET r == runes[i]
        n == Len(runes)
    IN  IF IsLetter(r) \/ IsDigit(r) THEN TRUE
        ELSE IF r = "." \/ r = ","
             THEN i > 1 /\ i < n /\ IsDigit(runes[i - 1]) /\ IsDigit(runes[i + 1])
        ELSE IF r = "+" \/ r = "-" \/ r = UnicodeMinus
             THEN i = 1 /\ i < n /\ IsDigit(runes[i + 1])
        ELSE IF r = DegreeSign
             THEN i > 1 /\ IsDigit(runes[i - 1])
        ELSE IF IsCurrency(r)
             THEN LET hasPrevDigit == i > 1 /\ IsDigit(runes[i - 1])
                      hasNextDigit == i < n /\ IsDigit(runes[i + 1])
                  IN  hasPrevDigit \/ hasNextDigit
        ELSE FALSE

\* One iteration of countTokens' loop: does rune i of runes count?
TokenAt(runes, i) ==
    LET r == runes[i]
        n == Len(runes)
    IN  IF IsLetter(r) \/ IsDigit(r) THEN TRUE
        ELSE IF r = "." \/ r = ","
             THEN i > 1 /\ i < n /\ IsDigit(runes[i - 1]) /\ IsDigit(runes[i + 1])
        ELSE IF r = "+" \/ r = "-" \/ r = UnicodeMinus
             THEN i < n /\ IsDigit(runes[i + 1])
        ELSE IF r = DegreeSign
             THEN i > 1 /\ IsDigit(runes[i - 1])
        ELSE IF IsCurrency(r)
             THEN LET hasPrevDigit == i > 1 /\ IsDigit(runes[i - 1])
                      hasNextDigit == i < n /\ IsDigit(runes[i + 1])
                  IN  hasPrevDigit \/ hasNextDigit
        ELSE FALSE

RECURSIVE CountFrom(_, _)
CountFrom(runes, i) ==
    IF i > Len(runes) THEN 0
    ELSE (IF TokenAt(runes, i) THEN 1 ELSE 0) + CountFrom(runes, i + 1)

countTokens(s) == CountFrom(s, 1)

\* ------------------------------------------------- confidence aggregation
\* An OCR region as gosseract reports it: [Confidence |-> raw score, Word |->
\* runes].  A BoundingBox keeps Word and the normalised Confidence (the
\* rectangle is copied verbatim and is not modelled).
EmptyResult ==
    [ MeanConfidence     |-> Zero,
      WeightedConfidence |-> Zero,
      TokenCount         |-> 0,
      Boxes              |-> << >>,
      Angle              |-> 0,
      ScaleFactor        |-> Zero ]

\* mutant: the box keeps the raw percentage
AccumulateRawConfidence(acc, box, tokens) ==
    LET boxConfidence == Q(box.Confidence, 1)
    IN  [ totalConfidence       |-> acc.totalConfidence + box.Confidence,
          weightedConfidenceSum |-> QAdd(acc.weightedConfidenceSum,
                                         QMul(Q(box.Confidence, 100), QInt(tokens))),
          totalTokens           |-> acc.totalTokens + tokens,
          resultBoxes           |-> Append(acc.resultBoxes,
                                     [ Word       |-> box.Word,
                                       Confidence |-> boxConfidence ]) ]

\* mutant: every accepted box counted as one token
AccumulateOneToken(acc, box, tokens) ==
    LET boxConfidence == Q(box.Confidence, 100)
    IN  [ totalConfidence       |-> acc.totalConfidence + box.Confidence,
          weightedConfidenceSum |-> QAdd(acc.weightedConfidenceSum,
                                         QMul(boxConfidence, QInt(tokens))),
          totalTokens           |-> acc.totalTokens + 1,
          resultBoxes           |-> Append(acc.resultBoxes,
                                     [ Word       |-> box.Word,
                                       Confidence |-> boxConfidence ]) ]

\* mutant: the tokens of a kept box are not added to totalTokens
AccumulateForgetsTokens(acc, box, tokens) ==
    LET boxConfidence == Q(box.Confidence, 100)
    IN  [ totalConfidence       |-> acc.totalConfidence + box.Confidence,
          weightedConfidenceSum |-> QAdd(acc.weightedConfidenceSum,
                                         QMul(boxConfidence, QInt(tokens))),
          totalTokens           |-> acc.totalTokens,
          resultBoxes           |-> Append(acc.resultBoxes,
                                     [ Word       |-> box.Word,
                                       Confidence |-> boxConfidence ]) ]

\* the body of the loop for a box that is kept (lines 104-116)
Accumulate(acc, box, tokens) ==
    LET boxConfidence == Q(box.Confidence, 100)
    IN  [ totalConfidence       |-> acc.totalConfidence + box.Confidence,
          weightedConfidenceSum |-> QAdd(acc.weightedConfidenceSum,
                                         QMul(boxConfidence, QInt(tokens))),
          totalTokens           |-> acc.totalTokens + tokens,
          resultBoxes           |-> Append(acc.resultBoxes,
                                     [ Word       |-> box.Word,
                                       Confidence |-> boxConfidence ]) ]

\* mutant: a region without tokens is kept
RECURSIVE BoxLoopKeepsTokenless(_, _, _)
BoxLoopKeepsTokenless(boxes, i, acc) ==
    IF i > Len(boxes) THEN acc
    ELSE LET box    == boxes[i]
             tokens == countTokens(box.Word)
         IN  IF box.Confidence = 0 THEN BoxLoopKeepsTokenless(boxes, i + 1, acc)
             ELSE BoxLoopKeepsTokenless(boxes, i + 1, Accumulate(acc, box, tokens))

\* the loop of detectTextSingle over boxes[i..], acc = the four accumulators
RECURSIVE BoxLoop(_, _, _)
BoxLoop(boxes, i, acc) ==
    IF i > Len(boxes) THEN acc
    ELSE LET box    == boxes[i]
             tokens == countTokens(box.Word)
         IN  IF box.Confidence = 0 THEN BoxLoop(boxes, i + 1, acc)
             ELSE IF tokens = 0 THEN BoxLoop(boxes, i + 1, acc)
             ELSE BoxLoop(boxes, i + 1, Accumulate(acc, box, tokens))

\* totalConfidence / len(resultBoxes) / 100, clamped (lines 125-131)
meanConfidence(acc) ==
    Clamp01(Q(acc.totalConfidence, Len(acc.resultBoxes) * 100))

\* mutant: the weighted confidence reported as a percentage
weightedConfidencePercent(acc) ==
    QMul(QDiv(acc.weightedConfidenceSum, QInt(acc.totalTokens)), QInt(100))

\* mutant: the weighted confidence computed without the token weights
weightedConfidenceUnweighted(acc) ==
    Clamp01(Q(acc.totalConfidence, Len(acc.resultBoxes) * 100))

\* weightedConfidenceSum / totalTokens, clamped (lines 134-140)
weightedConfidence(acc) ==
    Clamp01(QDiv(acc.weightedConfidenceSum, QInt(acc.totalTokens)))

\* detectTextSingle on the adapter's answer for one image: [err |-> TRUE] when
\* the engine fails (SetLanguage / SetImageFromBytes / GetBoundingBoxes), else
\* [err |-> FALSE, boxes |-> the regions].
detectTextSingle(ocrOut) ==
    IF ocrOut.err THEN [result |-> NilResult, err |-> "ocr"]
    ELSE IF Len(ocrOut.boxes) = 0 THEN [result |-> EmptyResult, err |-> Nil]
    ELSE CHOOSE out \in {
             IF Len(acc.resultBoxes) = 0 THEN [result |-> EmptyResult, err |-> Nil]
             ELSE [ result |->
                      [ MeanConfidence     |-> meanConfidence(acc),
                        WeightedConfidence |-> weightedConfidence(acc),
                        TokenCount         |-> acc.totalTokens,
                        Boxes              |-> acc.resultBoxes,
                        Angle              |-> 0,
                        ScaleFactor        |-> Zero ],
                    err |-> Nil ] :
             acc \in { BoxLoop(ocrOut.boxes, 1,
                         [ totalConfidence       |-> 0,
                           weightedConfidenceSum |-> Zero,
                           totalTokens           |-> 0,
                           resultBoxes           |-> << >> ]) } } : TRUE

\* ------------------------------------------------------------ preprocessor
\* mutant: the thresholds taken as decimal megapixels
calculateScaleFactorDecimal(w, h, pixels) ==
    IF pixels < 500000 THEN Q(16, 1)
    ELSE IF pixels < 1000000 THEN Q(9, 1)
    ELSE IF pixels < 2000000 THEN Q(9, 4)
    ELSE IF pixels <= 3000000 THEN Q(1, 1)
    ELSE Q(threeMegapixels, pixels)

\* mutant: large images scaled down to 2 MP
calculateScaleFactorToTwo(w, h, pixels) ==
    IF pixels < halfMegapixel THEN Q(16, 1)
    ELSE IF pixels < oneMegapixel THEN Q(9, 1)
    ELSE IF pixels < twoMegapixels THEN Q(9, 4)
    ELSE IF pixels <= threeMegapixels THEN Q(1, 1)
    ELSE Q(twoMegapixels, pixels)

\* The scale factor chosen from the pixel count, as the square of the factor.
calculateScaleFactor(w, h, pixels) ==
    IF pixels < halfMegapixel THEN Q(16, 1)
    ELSE IF pixels < oneMegapixel THEN Q(9, 1)
    ELSE IF pixels < twoMegapixels THEN Q(9, 4)
    ELSE IF pixels <= threeMegapixels THEN Q(1, 1)
    ELSE Q(threeMegapixels, pixels)

\* a / b <= c / d for a, c >= 0 and b, d > 0, without forming the products
RECURSIVE FracLe(_, _, _, _)
FracLe(a, b, c, d) ==
    \E p \in {<< a \div b, a % b, c \div d, c % d >>} :
        IF p[1] # p[3] THEN p[1] < p[3]
        ELSE IF p[2] = 0 THEN TRUE
        ELSE IF p[4] = 0 THEN FALSE
        ELSE FracLe(d, p[4], b, p[2])

\* the largest n in lo..hi with n <= x * scaleFactor, found by bisection;
\* lo <= x * scaleFactor holds on entry
RECURSIVE TruncSearch(_, _, _, _)
TruncSearch(lo, hi, x, sf2) ==
    IF lo >= hi THEN lo
    ELSE CHOOSE n \in { IF FracLe(mid * mid, x * x, sf2[1], sf2[2])
                        THEN TruncSearch(mid, hi, x, sf2)
                        ELSE TruncSearch(lo, mid - 1, x, sf2) :
                        mid \in {(lo + hi + 1) \div 2} } : TRUE

\* int(float64(x) * scaleFactor) for 0 < scaleFactor <= 1 given as its square
\* sf2: the n with n <= x * scaleFactor < n + 1
TruncTimes(x, sf2) == TruncSearch(0, x, x, sf2)

\* mutant: the downscaled dimensions rounded up
calculateScaleDimensionsCeil(w, h, pixels) ==
    CHOOSE d \in {
        IF pixels < halfMegapixel THEN [newW |-> w * 4, newH |-> h * 4, scaleFactor |-> sf]
        ELSE IF pixels < oneMegapixel THEN [newW |-> w * 3, newH |-> h * 3, scaleFactor |-> sf]
        ELSE IF pixels < twoMegapixels
        THEN [newW |-> (w * 3) \div 2, newH |-> (h * 3) \div 2, scaleFactor |-> sf]
        ELSE IF pixels <= threeMegapixels THEN [newW |-> w, newH |-> h, scaleFactor |-> sf]
        ELSE [ newW |-> TruncTimes(w, sf) + 1,
               newH |-> TruncTimes(h, sf) + 1,
               scaleFactor |-> sf ] :
        sf \in {calculateScaleFactor(w, h, pixels)} } : TRUE

\* calculateScaleDimensions (lines 99-124): the target dimensions and the
\* scale factor (as its square)
calculateScaleDimensions(w, h, pixels) ==
    CHOOSE d \in {
        IF pixels < halfMegapixel THEN [newW |-> w * 4, newH |-> h * 4, scaleFactor |-> sf]
        ELSE IF pixels < oneMegapixel THEN [newW |-> w * 3, newH |-> h * 3, scaleFactor |-> sf]
        ELSE IF pixels < twoMegapixels
        THEN [newW |-> (w * 3) \div 2, newH |-> (h * 3) \div 2, scaleFactor |-> sf]
        ELSE IF pixels <= threeMegapixels THEN [newW |-> w, newH |-> h, scaleFactor |-> sf]
        ELSE [ newW |-> TruncTimes(w, sf),
               newH |-> TruncTimes(h, sf),
               scaleFactor |-> sf ] :
        sf \in {calculateScaleFactor(w, h, pixels)} } : TRUE

\* mutant: the size check taken as exclusive (w < minDimension)
preprocessImageExclusive(img) ==
    LET w == img.w
        h == img.h
        pixels == w * h
    IN  IF w < minDimension \/ h < minDimension
        THEN [image |-> Nil, scaleFactor |-> Zero]
        ELSE [image |-> "gray", scaleFactor |-> calculateScaleFactor(w, h, pixels)]

\* preprocessImage: [image |-> Nil, ...] when a dimension is too small,
\* else the processed raster (identified by the image it came from).
preprocessImage(img) ==
    LET w == img.w
        h == img.h
        pixels == w * h
    IN  IF w <= minDimension \/ h <= minDimension
        THEN [image |-> Nil, scaleFactor |-> Zero]
        ELSE [image |-> "gray", scaleFactor |-> calculateScaleFactor(w, h, pixels)]

\* ------------------------------------------------------- the OCR adapter
\* Canned answers of the engine for one image (weighted confidence in the name).
Region(c, word) == [Confidence |-> c, Word |-> word]
Regions(boxes) == [err |-> FALSE, boxes |-> boxes]
OcrErr == [err |-> TRUE, boxes |-> << >>]
OcrNone == Regions(<< >>)
Ocr40 == Regions(<< Region(40, <<"a", "b">>) >>)
Ocr50 == Regions(<< Region(50, <<"z">>), Region(0, <<"a">>), Region(80, <<"-", "-">>) >>)
Ocr66 == Regions(<< Region(66, <<"a">>) >>)
Ocr90 == Regions(<< Region(90, <<"h", "e", "l", "l", "o", "!">>) >>)

\* Raw confidences of a region (the engine reports a percentage, 0 to 100)
\* and region texts with 2, 0, 4 and 1 tokens.
ConfSamples == {0, 40, 66, 100}
WordSamples == { <<"a", "b">>, <<"-", "-">>, <<"3", ".", "1", "4">>, <<"z">> }
RegionSamples == { Region(c, w) : c \in ConfSamples, w \in WordSamples }
\* every answer of at most MaxBoxes regions
RegionLists == UNION { [1..n -> RegionSamples] : n \in 0..MaxBoxes }

\* Region texts: every string of at most MaxWordLen runes over one rune of
\* each kind countTokens tells apart, and the texts of its documentation.
Alphabet ==
    { "a", CyrillicYa, CyrillicThousands, "1", ".", ",", "+", "-",
      UnicodeMinus, DegreeSign, "$", "!" }
ExampleWords ==
    { <<"3", ".", "1", "4">>, <<"$", "1", "0", "0">>,
      <<"h", "e", "l", "l", "o", "!">>, <<"-", "-">>,
      <<"1", ",", "0", "0", "0">>, <<"4", "5", DegreeSign>>, <<"5", "0", EuroSign>> }
TokenWords ==
    UNION { [1..n -> Alphabet] : n \in 0..MaxWordLen } \cup ExampleWords

Phase1Answers == {OcrErr, Ocr40, Ocr66}
AngleAnswers  == {OcrErr, Ocr40, Ocr50, Ocr66, Ocr90}
RawAnswers    == {OcrErr, OcrNone, Ocr50, Ocr90}
                   \cup { Regions(l) : l \in RegionLists }
                   \cup { Regions(<< Region(100, w) >>) : w \in TokenWords }

\* Submitted images: undecodable bytes, or a decoded raster of w x h pixels.
Undecodable == [decodes |-> FALSE, w |-> 0, h |-> 0]
Raster(w, h) == [decodes |-> TRUE, w |-> w, h |-> h]
TooSmallImages == {Raster(20, 500), Raster(500, 32), Raster(33, 20)}
UsableImages   == {Raster(33, 33), Raster(2000, 2000)}
\* rasters on both sides of each size threshold of the preprocessor
ScaleImages ==
    { Raster(400, 400), Raster(1000, 500), Raster(1024, 511), Raster(1024, 512),
      Raster(1000, 1000), Raster(1024, 1023), Raster(1024, 1024),
      Raster(2000, 1000), Raster(2048, 1023), Raster(2048, 1024),
      Raster(1600, 1600), Raster(2000, 1500), Raster(2000, 1550),
      Raster(2048, 1536), Raster(2048, 1537), Raster(2000, 1600),
      Raster(3000, 2000), Raster(4000, 4000) }

VARIABLES
    imageData,      \* the submitted bytes
    ocrRaw,         \* the engine's answer on the raw bytes
    ocrOf,          \* the engine's answer on the preprocessed image rotated by k
    encFails,       \* the k for which encodeImage fails
    pc,             \* DetectText / collector: "start", "collect", "drain", "done"
    ret,            \* what DetectText returned: [result, err]
    path,           \* which return path was taken
    scaleFactor,    \* preprocessImage's scale factor
    bestResult,     \* collector's best so far
    winner,         \* the accepted rr.result held while draining
    ctxDone,        \* ctx cancelled
    anglesChan,     \* buffered job queue
    anglesClosed,
    dispPc,         \* dispatcher goroutine: "off", "run", "done"
    dispIdx,        \* next index of the dispatcher's range loop
    idle,           \* number of workers at their select
    busy,           \* angles dequeued whose attempt is in progress
    exited,         \* number of workers that returned (wg.Done)
    sent,           \* every rotationResult sent on resultsChan, in order
    nTaken,         \* how many of them the collector has received
    resultsClosed,
    panicked,       \* a goroutine sent on a closed channel
    detectCalls,    \* number of detectTextSingle calls per input
    preprocessCalls,\* number of preprocessImage calls
    window,         \* how many entries of phase2Angles this run dispatches
    request,        \* the HTTP request given to Classify
    hpc,            \* Classify: "recv", "core", "responded"; "direct" without it
    response,       \* status and body written by Classify
    headerWrites,   \* number of WriteHeader calls
    bodyReads,      \* number of io.ReadAll(r.Body) calls
    coreCalls       \* number of DetectText calls made by Classify

vars == << imageData, ocrRaw, ocrOf, encFails, pc, ret, path, scaleFactor,
           bestResult, winner, ctxDone, anglesChan, anglesClosed, dispPc,
           dispIdx, idle, busy, exited, sent, nTaken, resultsClosed,
           panicked, detectCalls, preprocessCalls, window, request, hpc,
           response, headerWrites, bodyReads, coreCalls >>

\* The entries of phase2Angles that are dispatched: window consecutive
\* entries around the entry 90 (index 7).
FirstIdx == 7 - (window \div 2)
Candidates == SubSeq(phase2Angles, FirstIdx, FirstIdx + window - 1)
NumCandidates == Len(Candidates)
CandidateSet == { Candidates[i] : i \in 1..NumCandidates }

\* Images the adapter is asked about: the unrotated preprocessed image (0)
\* and each rotation of it.
Keys == {0} \cup CandidateSet

RawKey == 0 - 1
CallKeys == {RawKey} \cup Keys

\* resultsChan holds what was sent and not yet received (FIFO).
resultsChan == SubSeq(sent, nTaken + 1, Len(sent))
\* mutant: the channels made one slot short of the candidate count
ChanCapShort == Len(Candidates) - 1

\* capacity of anglesChan and of resultsChan: len(phase2Angles)
ChanCap == Len(Candidates)

\* result.WeightedConfidence >= confidenceThreshold
AtThreshold(result) == QGe(result.WeightedConfidence, confidenceThreshold)

\* mutant: the decode error is ignored
CanDecodeAlways(data) == TRUE

\* image.Decode succeeds (lines 153-154)
CanDecode(data) == data.decodes

\* mutant: the fallback swallows the engine's error
RawFallbackSwallow(ocrOut) ==
    LET r == detectTextSingle(ocrOut)
    IN  IF r.err # Nil THEN [result |-> EmptyResult, err |-> Nil]
        ELSE [ result |-> [r.result EXCEPT !.Angle = 0, !.ScaleFactor = Zero],
               err |-> Nil ]

\* The raw OCR fallback taken when the bytes do not decode (lines 156-162).
RawFallback(ocrOut) ==
    LET r == detectTextSingle(ocrOut)
    IN  IF r.err # Nil THEN [result |-> NilResult, err |-> r.err]
        ELSE [ result |-> [r.result EXCEPT !.Angle = 0, !.ScaleFactor = Zero],
               err |-> Nil ]

\* mutant: the threshold taken as exclusive
Phase1AcceptsStrict(result) == QGt(result.WeightedConfidence, confidenceThreshold)

\* Is the Phase 1 result returned as the answer (line 187)?
Phase1Accepts(result) == AtThreshold(result)

\* No step of DetectText taken yet.
CoreFresh ==
    /\ ret = [result |-> NilResult, err |-> Nil]
    /\ path = "none"
    /\ scaleFactor = Zero
    /\ bestResult = NilResult
    /\ winner = NilResult
    /\ ctxDone = FALSE
    /\ anglesChan = << >>
    /\ anglesClosed = FALSE
    /\ dispPc = "off"
    /\ dispIdx = 1
    /\ idle = 0
    /\ busy = {}
    /\ exited = 0
    /\ sent = << >>
    /\ nTaken = 0
    /\ resultsClosed = FALSE
    /\ panicked = FALSE
    /\ detectCalls = [k \in CallKeys |-> 0]
    /\ preprocessCalls = 0

NoResponse == [status |-> 0, error |-> "", result |-> NilResult]
\* DetectText called directly, without a request
NoRequest == [method |-> "", contentType |-> "", readErr |-> FALSE, empty |-> FALSE]

\* Classify has written nothing yet.
HandlerFresh ==
    /\ response = NoResponse
    /\ headerWrites = 0
    /\ bodyReads = 0
    /\ coreCalls = 0

\* The inputs of one DetectText call.  An answer that the call can never ask
\* for is fixed, so that equal runs are not counted twice.
Init ==
    /\ window = MaxAngles
    /\ imageData \in {Undecodable} \cup TooSmallImages \cup UsableImages
                        \cup ScaleImages
    \* the raw bytes are given to the engine only when they do not decode
    /\ ocrRaw \in (IF imageData.decodes THEN {OcrErr} ELSE RawAnswers)
    /\ encFails \in (IF imageData \in UsableImages THEN SUBSET Keys ELSE {{}})
    \* an image that does not encode is never given to the engine; the
    \* rasters of ScaleImages are answered at angle 0 only
    /\ ocrOf \in
         (IF imageData \in UsableImages
            THEN { f \in [Keys -> AngleAnswers] :
                     /\ f[0] \in Phase1Answers
                     /\ \A k \in encFails : f[k] = OcrErr }
          ELSE IF imageData \in ScaleImages
            THEN { [k \in Keys |-> IF k = 0 THEN a ELSE OcrErr] :
                     a \in {Ocr40, Ocr66} }
          ELSE { [k \in Keys |-> OcrErr] })
    /\ pc = "start"
    /\ CoreFresh
    /\ request = NoRequest
    /\ hpc = "direct"
    /\ HandlerFresh

Phase2Vars == << bestResult, winner, ctxDone, anglesChan, anglesClosed, dispPc,
                 dispIdx, idle, busy, exited, sent, nTaken, resultsClosed,
                 panicked >>
InputVars == << imageData, ocrRaw, ocrOf, encFails, window, request >>
HandlerVars == << hpc, response, headerWrites, bodyReads, coreCalls >>

Called(k) == [detectCalls EXCEPT ![k] = @ + 1]

\* DetectText up to its return or to the start of the collector loop of
\* detectTextWithRotations (channels made, workers and the two helper
\* goroutines started).
DetectText ==
    /\ pc = "start"
    /\ UNCHANGED << InputVars, HandlerVars >>
    /\ IF ~CanDecode(imageData)
       THEN \* raw OCR fallback
            /\ detectCalls' = Called(RawKey)
                /\ ret' = RawFallback(ocrRaw)
                /\ path' = "fallback"
                /\ pc' = "done"
                /\ UNCHANGED << scaleFactor, preprocessCalls, Phase2Vars >>
       ELSE LET pre == preprocessImage(imageData)
            IN  /\ preprocessCalls' = preprocessCalls + 1
                /\ IF pre.image = Nil
                   THEN /\ ret' = [result |-> EmptyResult, err |-> Nil]
                        /\ path' = "tooSmall"
                        /\ pc' = "done"
                        /\ UNCHANGED << scaleFactor, detectCalls, Phase2Vars >>
                   ELSE IF 0 \in encFails
                   THEN /\ ret' = [result |-> NilResult, err |-> "encode"]
                        /\ path' = "phase1"
                        /\ pc' = "done"
                        /\ UNCHANGED << scaleFactor, detectCalls, Phase2Vars >>
                   ELSE LET r == detectTextSingle(ocrOf[0])
                            result == [r.result EXCEPT !.Angle = 0,
                                                       !.ScaleFactor = pre.scaleFactor]
                        IN  /\ detectCalls' = Called(0)
                            /\ IF r.err # Nil
                               THEN /\ ret' = [result |-> NilResult, err |-> r.err]
                                    /\ path' = "phase1"
                                    /\ pc' = "done"
                                    /\ UNCHANGED << scaleFactor, Phase2Vars >>
                               ELSE IF Phase1Accepts(result)
                               THEN /\ ret' = [result |-> result, err |-> Nil]
                                    /\ path' = "phase1"
                                    /\ pc' = "done"
                                    /\ scaleFactor' = pre.scaleFactor
                                    /\ UNCHANGED Phase2Vars
                               ELSE \* detectTextWithRotations, lines 196-233
                                    /\ scaleFactor' = pre.scaleFactor
                                    /\ idle' = numWorkers
                                    /\ dispPc' = "run"
                                    /\ bestResult' = result
                                    /\ path' = "phase2"
                                    /\ pc' = "collect"
                                    /\ UNCHANGED << ret, winner, ctxDone, anglesChan,
                                                    anglesClosed, dispIdx, busy, exited,
                                                    sent, nTaken, resultsClosed,
                                                    panicked >>

\* The dispatcher goroutine (lines 215-224): one iteration of its loop, or the
\* deferred close(anglesChan) once the loop is over or ctx is done.  select
\* picks any ready case.
DispatcherReady ==
    (IF ctxDone THEN {"done"} ELSE {})
      \cup (IF Len(anglesChan) < ChanCap THEN {"send"} ELSE {})

Dispatcher ==
    /\ dispPc = "run"
    /\ IF dispIdx > Len(Candidates)
       THEN /\ anglesClosed' = TRUE
            /\ dispPc' = "done"
            /\ UNCHANGED << anglesChan, dispIdx >>
       ELSE \E br \in DispatcherReady :
              IF br = "send"
              THEN /\ anglesChan' = Append(anglesChan, Candidates[dispIdx])
                   /\ dispIdx' = dispIdx + 1
                   /\ UNCHANGED << anglesClosed, dispPc >>
              ELSE /\ anglesClosed' = TRUE
                   /\ dispPc' = "done"
                   /\ UNCHANGED << anglesChan, dispIdx >>
    /\ UNCHANGED << InputVars, HandlerVars, pc, ret, path, scaleFactor, bestResult, winner,
                    ctxDone, idle, busy, exited, sent, nTaken, resultsClosed,
                    panicked, detectCalls, preprocessCalls >>

\* rotationWorker at its select (lines 256-262): return on ctx.Done or on a
\* closed, empty queue; else dequeue an angle.
WorkerReady ==
    (IF ctxDone THEN {"done"} ELSE {})
      \cup (IF Len(anglesChan) > 0 THEN {"recv"} ELSE {})
      \cup (IF Len(anglesChan) = 0 /\ anglesClosed THEN {"closed"} ELSE {})

\* mutant: an angle is taken up without using up one of the workers
WorkerSelectUnbounded ==
    /\ idle > 0
    /\ \E br \in WorkerReady :
         IF br = "recv"
         THEN /\ busy' = busy \cup {Head(anglesChan)}
              /\ anglesChan' = Tail(anglesChan)
              /\ UNCHANGED << idle, exited >>
         ELSE /\ exited' = exited + 1
              /\ idle' = idle - 1
              /\ UNCHANGED << busy, anglesChan >>
    /\ UNCHANGED << InputVars, HandlerVars, pc, ret, path, scaleFactor, bestResult, winner,
                    ctxDone, anglesClosed, dispPc, dispIdx, sent, nTaken,
                    resultsClosed, panicked, detectCalls, preprocessCalls >>

WorkerSelect ==
    /\ idle > 0
    /\ \E br \in WorkerReady :
         IF br = "recv"
         THEN /\ busy' = busy \cup {Head(anglesChan)}
              /\ anglesChan' = Tail(anglesChan)
              /\ idle' = idle - 1
              /\ UNCHANGED exited
         ELSE /\ exited' = exited + 1
              /\ idle' = idle - 1
              /\ UNCHANGED << busy, anglesChan >>
    /\ UNCHANGED << InputVars, HandlerVars, pc, ret, path, scaleFactor, bestResult, winner,
                    ctxDone, anglesClosed, dispPc, dispIdx, sent, nTaken,
                    resultsClosed, panicked, detectCalls, preprocessCalls >>

\* Does a worker leave its loop after sending res (lines 281-284)?
WorkerStops(res) == AtThreshold(res)

\* mutant: the worker forgets res.Angle = angle
RotationOutcomeNoAngle(angle) ==
    IF angle \in encFails
    THEN [angle |-> angle, result |-> NilResult, err |-> "encode"]
    ELSE LET r == detectTextSingle(ocrOf[angle])
         IN  IF r.err # Nil
             THEN [angle |-> angle, result |-> NilResult, err |-> r.err]
             ELSE [ angle  |-> angle,
                    result |-> [r.result EXCEPT !.ScaleFactor = scaleFactor],
                    err    |-> Nil ]

\* mutant: the worker forgets res.ScaleFactor = scaleFactor
RotationOutcomeNoScale(angle) ==
    IF angle \in encFails
    THEN [angle |-> angle, result |-> NilResult, err |-> "encode"]
    ELSE LET r == detectTextSingle(ocrOf[angle])
         IN  IF r.err # Nil
             THEN [angle |-> angle, result |-> NilResult, err |-> r.err]
             ELSE [ angle  |-> angle,
                    result |-> [r.result EXCEPT !.Angle = angle],
                    err    |-> Nil ]

\* The outcome a worker produces for a dequeued angle (lines 264-279).
RotationOutcome(angle) ==
    IF angle \in encFails
    THEN [angle |-> angle, result |-> NilResult, err |-> "encode"]
    ELSE LET r == detectTextSingle(ocrOf[angle])
         IN  IF r.err # Nil
             THEN [angle |-> angle, result |-> NilResult, err |-> r.err]
             ELSE [ angle  |-> angle,
                    result |-> [r.result EXCEPT !.Angle = angle,
                                                !.ScaleFactor = scaleFactor],
                    err    |-> Nil ]

\* mutant: an attempt is abandoned once some accepted outcome was sent
WorkerAttemptAbandons(angle) ==
    /\ angle \in busy
    /\ Len(resultsChan) < ChanCap
    /\ LET rr == RotationOutcome(angle)
           accepted == \E i \in 1..Len(sent) :
                         sent[i].err = Nil /\ AtThreshold(sent[i].result)
       IN  /\ sent' = IF accepted THEN sent ELSE Append(sent, rr)
           /\ panicked' = (panicked \/ resultsClosed)
           /\ detectCalls' = IF angle \in encFails THEN detectCalls ELSE Called(angle)
           /\ busy' = busy \ {angle}
           /\ IF accepted \/ (rr.err = Nil /\ WorkerStops(rr.result))
              THEN exited' = exited + 1 /\ UNCHANGED idle
              ELSE idle' = idle + 1 /\ UNCHANGED exited
    /\ UNCHANGED << InputVars, HandlerVars, pc, ret, path, scaleFactor, bestResult,
                    winner, ctxDone, anglesChan, anglesClosed, dispPc, dispIdx,
                    nTaken, resultsClosed, preprocessCalls >>

\* mutant: a failed attempt is made again
WorkerAttemptRetries(angle) ==
    /\ angle \in busy
    /\ Len(resultsChan) < ChanCap
    /\ LET rr == RotationOutcome(angle)
       IN  /\ sent' = Append(sent, rr)
           /\ panicked' = (panicked \/ resultsClosed)
           /\ detectCalls' = IF angle \in encFails THEN detectCalls ELSE Called(angle)
           /\ busy' = IF rr.err # Nil /\ Len(sent) < ChanCap - 1
                      THEN busy ELSE busy \ {angle}
           /\ IF rr.err # Nil /\ Len(sent) < ChanCap - 1
              THEN UNCHANGED << idle, exited >>
              ELSE IF rr.err = Nil /\ WorkerStops(rr.result)
              THEN exited' = exited + 1 /\ UNCHANGED idle
              ELSE idle' = idle + 1 /\ UNCHANGED exited
    /\ UNCHANGED << InputVars, HandlerVars, pc, ret, path, scaleFactor, bestResult,
                    winner, ctxDone, anglesChan, anglesClosed, dispPc, dispIdx,
                    nTaken, resultsClosed, preprocessCalls >>

\* mutant: a worker returns when its attempt fails
WorkerAttemptStopsOnError(angle) ==
    /\ angle \in busy
    /\ Len(resultsChan) < ChanCap
    /\ LET rr == RotationOutcome(angle)
       IN  /\ sent' = Append(sent, rr)
           /\ panicked' = (panicked \/ resultsClosed)
           /\ detectCalls' = IF angle \in encFails THEN detectCalls ELSE Called(angle)
           /\ busy' = busy \ {angle}
           /\ IF rr.err # Nil \/ WorkerStops(rr.result)
              THEN exited' = exited + 1 /\ UNCHANGED idle
              ELSE idle' = idle + 1 /\ UNCHANGED exited
    /\ UNCHANGED << InputVars, HandlerVars, pc, ret, path, scaleFactor, bestResult,
                    winner, ctxDone, anglesChan, anglesClosed, dispPc, dispIdx,
                    nTaken, resultsClosed, preprocessCalls >>

\* mutant: a worker that returns on an accepted result leaves without wg.Done
WorkerAttemptNoDone(angle) ==
    /\ angle \in busy
    /\ Len(resultsChan) < ChanCap
    /\ LET rr == RotationOutcome(angle)
       IN  /\ sent' = Append(sent, rr)
           /\ panicked' = (panicked \/ resultsClosed)
           /\ detectCalls' = IF angle \in encFails THEN detectCalls ELSE Called(angle)
           /\ busy' = busy \ {angle}
           /\ IF rr.err = Nil /\ WorkerStops(rr.result)
              THEN UNCHANGED << idle, exited >>
              ELSE idle' = idle + 1 /\ UNCHANGED exited
    /\ UNCHANGED << InputVars, HandlerVars, pc, ret, path, scaleFactor, bestResult,
                    winner, ctxDone, anglesChan, anglesClosed, dispPc, dispIdx,
                    nTaken, resultsClosed, preprocessCalls >>

\* rotationWorker's body for one dequeued angle (lines 264-285): rotate,
\* encode, detect, send the outcome, and return once a result is accepted.
WorkerAttempt(angle) ==
    /\ angle \in busy
    /\ Len(resultsChan) < ChanCap
    /\ LET rr == RotationOutcome(angle)
       IN  /\ sent' = Append(sent, rr)
           /\ panicked' = (panicked \/ resultsClosed)
           /\ detectCalls' = IF angle \in encFails THEN detectCalls ELSE Called(angle)
           /\ busy' = busy \ {angle}
           /\ IF rr.err = Nil /\ WorkerStops(rr.result)
              THEN exited' = exited + 1 /\ UNCHANGED idle
              ELSE idle' = idle + 1 /\ UNCHANGED exited
    /\ UNCHANGED << InputVars, HandlerVars, pc, ret, path, scaleFactor, bestResult, winner,
                    ctxDone, anglesChan, anglesClosed, dispPc, dispIdx, nTaken,
                    resultsClosed, preprocessCalls >>

\* mutant: the wait ends when the first worker is done
WgZeroAfterFirst == exited >= 1

\* mutant: wg.Add is called for all workers but one
WgZeroShortByOne == exited >= numWorkers - 1

\* wg.Wait() returns: every worker has called wg.Done (lines 207-209, 228).
WgZero == exited = numWorkers

\* The goroutine of lines 227-230: wg.Wait(), then close(resultsChan).
Closer ==
    /\ path = "phase2"
    /\ ~resultsClosed
    /\ WgZero
    /\ resultsClosed' = TRUE
    /\ UNCHANGED << InputVars, HandlerVars, pc, ret, path, scaleFactor, bestResult, winner,
                    ctxDone, anglesChan, anglesClosed, dispPc, dispIdx, idle,
                    busy, exited, sent, nTaken, panicked, detectCalls,
                    preprocessCalls >>

\* mutant: the comparison of line 239 reversed
BetterReversed(result, best) == QLt(result.WeightedConfidence, best.WeightedConfidence)

\* mutant: the comparison of line 239 not strict
BetterOrEqual(result, best) == QGe(result.WeightedConfidence, best.WeightedConfidence)

\* mutant: the collector's threshold taken as exclusive
CollectorAcceptsStrict(result) == QGt(result.WeightedConfidence, confidenceThreshold)

\* Does the collector replace bestResult by result (line 239)?
Better(result, best) == QGt(result.WeightedConfidence, best.WeightedConfidence)

\* Does the collector leave its loop on result (line 243)?
CollectorAccepts(result) == AtThreshold(result)

\* mutant: the collector skips every outcome, as it skips an error
CollectorReceiveSkips ==
    /\ pc = "collect"
    /\ Len(resultsChan) > 0
    /\ nTaken' = nTaken + 1
    /\ UNCHANGED << bestResult, winner, pc >>
    /\ UNCHANGED << InputVars, HandlerVars, ret, path, scaleFactor, ctxDone, anglesChan,
                    anglesClosed, dispPc, dispIdx, idle, busy, exited, sent,
                    resultsClosed, panicked, detectCalls, preprocessCalls >>

\* One iteration of the collector's range loop (lines 235-249).
CollectorReceive ==
    /\ pc = "collect"
    /\ Len(resultsChan) > 0
    /\ LET rr == Head(resultsChan)
       IN  /\ nTaken' = nTaken + 1
           /\ IF rr.err # Nil
              THEN UNCHANGED << bestResult, winner, pc >>
              ELSE /\ bestResult' = IF Better(rr.result, bestResult)
                                    THEN rr.result ELSE bestResult
                   /\ IF CollectorAccepts(rr.result)
                      THEN winner' = rr.result /\ pc' = "drain"
                      ELSE UNCHANGED << winner, pc >>
    /\ UNCHANGED << InputVars, HandlerVars, ret, path, scaleFactor, ctxDone, anglesChan,
                    anglesClosed, dispPc, dispIdx, idle, busy, exited, sent,
                    resultsClosed, panicked, detectCalls, preprocessCalls >>

\* The range loop ends on the closed, empty channel: return bestResult
\* (line 251); the deferred cancel() runs.
CollectorReturnBest ==
    /\ pc = "collect"
    /\ Len(resultsChan) = 0
    /\ resultsClosed
    /\ ret' = [result |-> bestResult, err |-> Nil]
    /\ pc' = "done"
    /\ ctxDone' = TRUE
    /\ UNCHANGED << InputVars, HandlerVars, path, scaleFactor, bestResult, winner, anglesChan,
                    anglesClosed, dispPc, dispIdx, idle, busy, exited, sent,
                    nTaken, resultsClosed, panicked, detectCalls,
                    preprocessCalls >>

\* One iteration of the drain loop (lines 245-246).
DrainOne ==
    /\ pc = "drain"
    /\ Len(resultsChan) > 0
    /\ nTaken' = nTaken + 1
    /\ UNCHANGED << InputVars, HandlerVars, pc, ret, path, scaleFactor, bestResult, winner,
                    ctxDone, anglesChan, anglesClosed, dispPc, dispIdx, idle,
                    busy, exited, sent, resultsClosed, panicked, detectCalls,
                    preprocessCalls >>

\* mutant: the collector resets the angle of the result it returns
ReturnWinnerRelabelled ==
    /\ pc = "drain"
    /\ Len(resultsChan) = 0
    /\ resultsClosed
    /\ ret' = [result |-> [winner EXCEPT !.Angle = 0], err |-> Nil]
    /\ pc' = "done"
    /\ ctxDone' = TRUE
    /\ UNCHANGED << InputVars, HandlerVars, path, scaleFactor, bestResult, winner,
                    anglesChan, anglesClosed, dispPc, dispIdx, idle, busy, exited,
                    sent, nTaken, resultsClosed, panicked, detectCalls,
                    preprocessCalls >>

\* The drain loop ends on the closed, empty channel: return rr.result
\* (line 247); the deferred cancel() runs.
ReturnWinner ==
    /\ pc = "drain"
    /\ Len(resultsChan) = 0
    /\ resultsClosed
    /\ ret' = [result |-> winner, err |-> Nil]
    /\ pc' = "done"
    /\ ctxDone' = TRUE
    /\ UNCHANGED << InputVars, HandlerVars, path, scaleFactor, bestResult, winner, anglesChan,
                    anglesClosed, dispPc, dispIdx, idle, busy, exited, sent,
                    nTaken, resultsClosed, panicked, detectCalls,
                    preprocessCalls >>

Next ==
    \/ DetectText
    \/ Dispatcher
    \/ WorkerSelect
    \/ \E angle \in CandidateSet : WorkerAttempt(angle)
    \/ Closer
    \/ CollectorReceive
    \/ CollectorReturnBest
    \/ DrainOne
    \/ ReturnWinner

Spec == Init /\ [][Next]_vars

\* ------------------------------------------------- a saturated worker pool
\* A search over more candidate angles than there are workers.  The engine
\* answers 0.40 without rotation; one angle s (the first one dispatched, or
\* 90) is answered a and every other angle b; an angle whose attempt fails may
\* fail in encodeImage instead of in the engine.
PoolAnswers ==
    { [k \in Keys |-> IF k = 0 THEN Ocr40 ELSE IF k = s THEN a ELSE b] :
        s \in {Candidates[1], 90}, a \in {OcrErr, Ocr66}, b \in {Ocr40, OcrErr, Ocr66} }

InitPool ==
    /\ window = MaxPoolAngles
    /\ imageData = Raster(2000, 2000)
    /\ ocrRaw = OcrErr
    /\ ocrOf \in PoolAnswers
    /\ encFails \in { e \in {{}, {Candidates[1]}, CandidateSet} :
                         \A k \in e : ocrOf[k] = OcrErr }
    /\ pc = "start"
    /\ CoreFresh
    /\ request = NoRequest
    /\ hpc = "direct"
    /\ HandlerFresh

SpecPool == InitPool /\ [][Next]_vars

\* The same search with the goroutines scheduled: as long as some goroutine
\* can take a step, one of them is run; every encode and detect call returns
\* (an attempt in progress can always send its outcome).
Fairness == WF_vars(Next)

SpecPoolFair == InitPool /\ [][Next]_vars /\ Fairness

\* ------------------------------------------------------- the HTTP handler
\* A request: its method, its Content-Type header, whether reading the body
\* fails and whether the body is empty (its content is imageData).
Requests ==
    [ method      : {"GET", "POST", "PUT"},
      contentType : {"image/jpeg", "image/png", "image/gif", ""},
      readErr     : BOOLEAN,
      empty       : BOOLEAN ]

Rejected(status, message) == [status |-> status, error |-> message, result |-> NilResult]
\* no check failed
Accepted == NoResponse

\* mutant: the empty body is let through
RejectionAllowsEmpty(req) ==
    IF req.method # "POST"
    THEN Rejected(405, "method not allowed, use POST")
    ELSE IF req.contentType # "image/jpeg" /\ req.contentType # "image/png"
    THEN Rejected(400, "content-type must be image/jpeg or image/png")
    ELSE IF req.readErr
    THEN Rejected(400, "failed to read image data")
    ELSE Accepted

\* mutant: the Content-Type is checked before the method
RejectionContentTypeFirst(req) ==
    IF req.contentType # "image/jpeg" /\ req.contentType # "image/png"
    THEN Rejected(400, "content-type must be image/jpeg or image/png")
    ELSE IF req.method # "POST"
    THEN Rejected(405, "method not allowed, use POST")
    ELSE IF req.readErr
    THEN Rejected(400, "failed to read image data")
    ELSE IF req.empty
    THEN Rejected(400, "empty image data")
    ELSE Accepted

\* The checks of Classify before the core is called (lines 28-55), in their
\* order: the response of the first one that fails.
Rejection(req) ==
    IF req.method # "POST"
    THEN Rejected(405, "method not allowed, use POST")
    ELSE IF req.contentType # "image/jpeg" /\ req.contentType # "image/png"
    THEN Rejected(400, "content-type must be image/jpeg or image/png")
    ELSE IF req.readErr
    THEN Rejected(400, "failed to read image data")
    ELSE IF req.empty
    THEN Rejected(400, "empty image data")
    ELSE Accepted

\* io.ReadAll is reached when the method and the Content-Type pass
ReadsBody(req) ==
    req.method = "POST" /\ req.contentType \in {"image/jpeg", "image/png"}

\* mutant: the error's text is put into the response
CoreFailureLeaks(err) == Rejected(500, err)

\* the response to an error of DetectText (lines 59-63)
CoreFailure(err) == Rejected(500, "failed to process image")

\* json.NewEncoder(w).Encode(result): the object with the struct's json keys
\* (the rectangle of a box is not modelled)
EncodeBox(box) == [word |-> box.Word, confidence |-> box.Confidence]
Encode(result) ==
    [ mean_confidence     |-> result.MeanConfidence,
      weighted_confidence |-> result.WeightedConfidence,
      token_count         |-> result.TokenCount,
      boxes               |-> [i \in 1..Len(result.Boxes) |-> EncodeBox(result.Boxes[i])],
      angle               |-> result.Angle,
      scale_factor        |-> result.ScaleFactor ]

\* Classify from its entry to a rejection or to the call of DetectText
\* (lines 25-58).
Classify ==
    /\ hpc = "recv"
    /\ bodyReads' = IF ReadsBody(request) THEN bodyReads + 1 ELSE bodyReads
    /\ LET rejection == Rejection(request)
       IN  IF rejection # Accepted
           THEN /\ response' = rejection
                /\ headerWrites' = headerWrites + 1
                /\ hpc' = "responded"
                /\ UNCHANGED << pc, coreCalls >>
           ELSE /\ coreCalls' = coreCalls + 1
                /\ pc' = "start"
                /\ hpc' = "core"
                /\ UNCHANGED << response, headerWrites >>
    /\ UNCHANGED << InputVars, ret, path, scaleFactor, Phase2Vars, detectCalls,
                    preprocessCalls >>

\* Classify after DetectText has returned (lines 59-66).
Respond ==
    /\ hpc = "core"
    /\ pc = "done"
    /\ response' = IF ret.err # Nil THEN CoreFailure(ret.err)
                   ELSE [status |-> 200, error |-> "", result |-> Encode(ret.result)]
    /\ headerWrites' = headerWrites + 1
    /\ hpc' = "responded"
    /\ UNCHANGED << InputVars, pc, ret, path, scaleFactor, Phase2Vars, detectCalls,
                    preprocessCalls, bodyReads, coreCalls >>

\* One request.  The body of a request that passes the checks is one of the
\* images of Init; the engine's answers are those of Init, except that a
\* PNG request carries undecodable bytes (Classify gives the core the same
\* bytes whatever the Content-Type).
InitHttp ==
    /\ window = MaxAngles
    /\ request \in Requests
    /\ imageData \in
         (IF Rejection(request) # Accepted \/ request.contentType = "image/png"
            THEN {Undecodable}
            ELSE {Undecodable} \cup TooSmallImages \cup UsableImages)
    /\ ocrRaw \in
         (IF Rejection(request) # Accepted \/ imageData.decodes
            THEN {OcrErr} ELSE {OcrErr, OcrNone, Ocr50, Ocr90})
    /\ encFails \in (IF imageData \in UsableImages THEN SUBSET Keys ELSE {{}})
    /\ ocrOf \in
         (IF imageData \in UsableImages
            THEN { f \in [Keys -> AngleAnswers] :
                     /\ f[0] \in Phase1Answers
                     /\ \A k \in encFails : f[k] = OcrErr }
          ELSE { [k \in Keys |-> OcrErr] })
    /\ pc = "idle"
    /\ CoreFresh
    /\ hpc = "recv"
    /\ HandlerFresh

NextHttp ==
    \/ Classify
    \/ Respond
    \/ Next

SpecHttp == InitHttp /\ [][NextHttp]_vars

\* ------------------------------ DetectText(imageData, lang), classifier.go
\* The variant of src/internal/service/classifier.go: a result has one
\* Confidence (the clamped mean of the kept boxes), a box is kept when its
\* word contains a letter, the threshold is 0.65, the search is written
\* inline in DetectText and a worker calls cancel() after sending an accepted
\* result.  lang selects the engine's language and is part of the adapter's
\* answers.
confidenceThresholdLang == Q(65, 100)

EmptyResultLang ==
    [ Confidence |-> Zero, Boxes |-> << >>, Angle |-> 0, ScaleFactor |-> Zero ]

RECURSIVE ContainsFrom(_, _)
ContainsFrom(s, i) ==
    IF i > Len(s) THEN FALSE
    ELSE IF IsLetter(s[i]) THEN TRUE
    ELSE ContainsFrom(s, i + 1)

containsLetters(s) == ContainsFrom(s, 1)

\* the loop of detectTextSingle over boxes[i..] (classifier.go lines 287-304)
RECURSIVE BoxLoopLang(_, _, _)
BoxLoopLang(boxes, i, acc) ==
    IF i > Len(boxes) THEN acc
    ELSE LET box == boxes[i]
         IN  IF box.Confidence = 0 THEN BoxLoopLang(boxes, i + 1, acc)
             ELSE IF ~containsLetters(box.Word) THEN BoxLoopLang(boxes, i + 1, acc)
             ELSE BoxLoopLang(boxes, i + 1,
                    [ totalConfidence |-> acc.totalConfidence + box.Confidence,
                      resultBoxes     |-> Append(acc.resultBoxes,
                                            [ Word       |-> box.Word,
                                              Confidence |-> Q(box.Confidence, 100) ]) ])

detectTextSingleLang(ocrOut) ==
    IF ocrOut.err THEN [result |-> NilResult, err |-> "ocr"]
    ELSE IF Len(ocrOut.boxes) = 0 THEN [result |-> EmptyResultLang, err |-> Nil]
    ELSE LET acc == BoxLoopLang(ocrOut.boxes, 1,
                      [totalConfidence |-> 0, resultBoxes |-> << >>])
         IN  IF Len(acc.resultBoxes) = 0
             THEN [result |-> EmptyResultLang, err |-> Nil]
             ELSE [ result |->
                      [ Confidence  |-> Clamp01(Q(acc.totalConfidence,
                                                  Len(acc.resultBoxes) * 100)),
                        Boxes       |-> acc.resultBoxes,
                        Angle       |-> 0,
                        ScaleFactor |-> Zero ],
                    err |-> Nil ]

\* preprocessImage of classifier.go (lines 189-246), the scale factor as its
\* square
preprocessImageLang(img) ==
    LET w == img.w
        h == img.h
        pixels == w * h
    IN  IF w <= minDimension \/ h <= minDimension
        THEN [image |-> Nil, scaleFactor |-> Zero]
        ELSE [ image |-> "gray",
               scaleFactor |->
                 IF pixels < halfMegapixel THEN Q(16, 1)
                 ELSE IF pixels < oneMegapixel THEN Q(9, 1)
                 ELSE IF pixels < twoMegapixels THEN Q(9, 4)
                 ELSE IF pixels <= threeMegapixels THEN Q(1, 1)
                 ELSE Q(threeMegapixels, pixels) ]

\* result.Confidence >= confidenceThreshold
AtThresholdLang(result) == QGe(result.Confidence, confidenceThresholdLang)

\* DetectText(imageData, lang) up to its return or to the start of its
\* collector loop (lines 324-443).
DetectTextLang ==
    /\ pc = "start"
    /\ UNCHANGED << InputVars, HandlerVars >>
    /\ IF ~CanDecode(imageData)
       THEN LET r == detectTextSingleLang(ocrRaw)
            IN  /\ detectCalls' = Called(RawKey)
                /\ ret' = IF r.err # Nil THEN [result |-> NilResult, err |-> r.err]
                          ELSE [ result |-> [r.result EXCEPT !.Angle = 0,
                                                             !.ScaleFactor = Zero],
                                 err |-> Nil ]
                /\ path' = "fallback"
                /\ pc' = "done"
                /\ UNCHANGED << scaleFactor, preprocessCalls, Phase2Vars >>
       ELSE LET pre == preprocessImageLang(imageData)
            IN  /\ preprocessCalls' = preprocessCalls + 1
                /\ IF pre.image = Nil
                   THEN /\ ret' = [result |-> EmptyResultLang, err |-> Nil]
                        /\ path' = "tooSmall"
                        /\ pc' = "done"
                        /\ UNCHANGED << scaleFactor, detectCalls, Phase2Vars >>
                   ELSE IF 0 \in encFails
                   THEN /\ ret' = [result |-> NilResult, err |-> "encode"]
                        /\ path' = "phase1"
                        /\ pc' = "done"
                        /\ UNCHANGED << scaleFactor, detectCalls, Phase2Vars >>
                   ELSE LET r == detectTextSingleLang(ocrOf[0])
                            result == [r.result EXCEPT !.Angle = 0,
                                                       !.ScaleFactor = pre.scaleFactor]
                        IN  /\ detectCalls' = Called(0)
                            /\ IF r.err # Nil
                               THEN /\ ret' = [result |-> NilResult, err |-> r.err]
                                    /\ path' = "phase1"
                                    /\ pc' = "done"
                                    /\ UNCHANGED << scaleFactor, Phase2Vars >>
                               ELSE IF AtThresholdLang(result)
                               THEN /\ ret' = [result |-> result, err |-> Nil]
                                    /\ path' = "phase1"
                                    /\ pc' = "done"
                                    /\ scaleFactor' = pre.scaleFactor
                                    /\ UNCHANGED Phase2Vars
                               ELSE /\ scaleFactor' = pre.scaleFactor
                                    /\ idle' = numWorkers
                                    /\ dispPc' = "run"
                                    /\ bestResult' = result
                                    /\ path' = "phase2"
                                    /\ pc' = "collect"
                                    /\ UNCHANGED << ret, winner, ctxDone, anglesChan,
                                                    anglesClosed, dispIdx, busy, exited,
                                                    sent, nTaken, resultsClosed,
                                                    panicked >>

\* The dispatcher goroutine of classifier.go (lines 430-439): one iteration
\* of its range loop, or close(anglesChan) after the loop.  The break of the
\* ctx.Done case leaves the select statement, not the loop: the loop goes on
\* with the next angle.
DispatcherLang ==
    /\ dispPc = "run"
    /\ IF dispIdx > Len(Candidates)
       THEN /\ anglesClosed' = TRUE
            /\ dispPc' = "done"
            /\ UNCHANGED << anglesChan, dispIdx >>
       ELSE \E br \in DispatcherReady :
              IF br = "send"
              THEN /\ anglesChan' = Append(anglesChan, Candidates[dispIdx])
                   /\ dispIdx' = dispIdx + 1
                   /\ UNCHANGED << anglesClosed, dispPc >>
              ELSE /\ dispIdx' = dispIdx + 1
                   /\ UNCHANGED << anglesChan, anglesClosed, dispPc >>
    /\ UNCHANGED << InputVars, HandlerVars, pc, ret, path, scaleFactor, bestResult, winner,
                    ctxDone, idle, busy, exited, sent, nTaken, resultsClosed,
                    panicked, detectCalls, preprocessCalls >>

\* The outcome a worker produces for a dequeued angle (lines 402-417).
RotationOutcomeLang(angle) ==
    IF angle \in encFails
    THEN [angle |-> angle, result |-> NilResult, err |-> "encode"]
    ELSE LET r == detectTextSingleLang(ocrOf[angle])
         IN  IF r.err # Nil
             THEN [angle |-> angle, result |-> NilResult, err |-> r.err]
             ELSE [ angle  |-> angle,
                    result |-> [r.result EXCEPT !.Angle = angle,
                                                !.ScaleFactor = scaleFactor],
                    err    |-> Nil ]

\* A worker's body for one dequeued angle (lines 402-423): rotate, encode,
\* detect, send the outcome, and after an accepted result cancel() and
\* return.
WorkerAttemptLang(angle) ==
    /\ angle \in busy
    /\ Len(resultsChan) < ChanCap
    /\ LET rr == RotationOutcomeLang(angle)
       IN  /\ sent' = Append(sent, rr)
           /\ panicked' = (panicked \/ resultsClosed)
           /\ detectCalls' = IF angle \in encFails THEN detectCalls ELSE Called(angle)
           /\ busy' = busy \ {angle}
           /\ IF rr.err = Nil /\ AtThresholdLang(rr.result)
              THEN /\ ctxDone' = TRUE
                   /\ exited' = exited + 1
                   /\ UNCHANGED idle
              ELSE /\ idle' = idle + 1
                   /\ UNCHANGED << exited, ctxDone >>
    /\ UNCHANGED << InputVars, HandlerVars, pc, ret, path, scaleFactor, bestResult, winner,
                    anglesChan, anglesClosed, dispPc, dispIdx, nTaken,
                    resultsClosed, preprocessCalls >>

\* One iteration of the collector's range loop (lines 448-464).
CollectorReceiveLang ==
    /\ pc = "collect"
    /\ Len(resultsChan) > 0
    /\ LET rr == Head(resultsChan)
       IN  /\ nTaken' = nTaken + 1
           /\ IF rr.err # Nil
              THEN UNCHANGED << bestResult, winner, pc >>
              ELSE /\ bestResult' = IF QGt(rr.result.Confidence, bestResult.Confidence)
                                    THEN rr.result ELSE bestResult
                   /\ IF AtThresholdLang(rr.result)
                      THEN winner' = rr.result /\ pc' = "drain"
                      ELSE UNCHANGED << winner, pc >>
    /\ UNCHANGED << InputVars, HandlerVars, ret, path, scaleFactor, ctxDone, anglesChan,
                    anglesClosed, dispPc, dispIdx, idle, busy, exited, sent,
                    resultsClosed, panicked, detectCalls, preprocessCalls >>

\* One call DetectText(imageData, lang): bytes that do not decode, an image
\* that is too small, or a 4 MP image whose unrotated attempt fails, is
\* accepted or is below the threshold; in the last case one angle s is
\* answered a and every other angle b.
LangAnswers ==
    { [k \in Keys |-> IF k = 0 THEN p
                      ELSE IF p # Ocr40 THEN OcrErr
                      ELSE IF k = s THEN a ELSE b] :
        p \in {OcrErr, Ocr40, Ocr66},
        s \in {Candidates[1], 90}, a \in {OcrErr, Ocr66}, b \in {Ocr40, OcrErr, Ocr66} }

InitLang ==
    /\ window = MaxPoolAngles
    /\ imageData \in {Undecodable, Raster(500, 32), Raster(2000, 2000)}
    /\ ocrRaw \in (IF imageData.decodes THEN {OcrErr} ELSE {OcrErr, Ocr50, Ocr66})
    /\ ocrOf \in (IF imageData = Raster(2000, 2000) THEN LangAnswers
                  ELSE { [k \in Keys |-> OcrErr] })
    /\ encFails \in (IF imageData = Raster(2000, 2000)
                       THEN { e \in {{}, {0}, {Candidates[1]}, CandidateSet} :
                                \A k \in e : ocrOf[k] = OcrErr }
                     ELSE {{}})
    /\ pc = "start"
    /\ CoreFresh
    /\ request = NoRequest
    /\ hpc = "direct"
    /\ HandlerFresh

NextLang ==
    \/ DetectTextLang
    \/ DispatcherLang
    \/ WorkerSelect
    \/ \E angle \in CandidateSet : WorkerAttemptLang(angle)
    \/ Closer
    \/ CollectorReceiveLang
    \/ CollectorReturnBest
    \/ DrainOne
    \/ ReturnWinner

SpecLang == InitLang /\ [][NextLang]_vars

\* ===================================================================== claims
Done == pc = "done"
NoWorkerStarted ==
    idle = 0 /\ busy = {} /\ exited = 0 /\ dispPc = "off" /\ sent = << >>
NoRotatedDetect == \A a \in CandidateSet : detectCalls[a] = 0

\* The unrotated attempt is made: the bytes decode, no dimension is too small
\* and the preprocessed image encodes.
Phase1Reached ==
    /\ imageData.decodes
    /\ imageData.w > 32 /\ imageData.h > 32
    /\ 0 \notin encFails
\* ... and the engine answers it
Phase1Succeeds == Phase1Reached /\ ~ocrOf[0].err
Phase1Wc == detectTextSingle(ocrOf[0]).result.WeightedConfidence
Threshold == <<33, 50>>

\* The rotated attempt at angle a succeeds / its weighted confidence.
AttemptSucceeds(a) == a \notin encFails /\ ~ocrOf[a].err
AttemptWc(a) == detectTextSingle(ocrOf[a]).result.WeightedConfidence

\* Indices of the successful outcomes sent so far, and of the accepted ones.
Successes == { i \in 1..Len(sent) : sent[i].err = Nil }
AcceptedSent ==
    { i \in Successes : QGe(sent[i].result.WeightedConfidence, Threshold) }
FirstAccepted == CHOOSE i \in AcceptedSent : \A j \in AcceptedSent : i <= j

\* C1: when the Phase 1 attempt yields weightedConfidence >= 0.66, no worker
\* is ever started, no rotated image is ever given to the engine, and
\* DetectText returns the Phase 1 result with angle 0 and the preprocessor's
\* scale factor.
C1_Phase1AcceptSkipsPhase2 ==
    (Phase1Succeeds /\ QGe(Phase1Wc, Threshold)) =>
        /\ NoWorkerStarted
        /\ NoRotatedDetect
        /\ path # "phase2"
        /\ Done =>
             /\ ret.err = Nil
             /\ ret.result =
                  [detectTextSingle(ocrOf[0]).result EXCEPT
                     !.Angle = 0,
                     !.ScaleFactor = preprocessImage(imageData).scaleFactor]
             /\ ret.result.Angle = 0
             /\ ret.result.ScaleFactor # Zero
             /\ detectCalls[0] = 1

C1_Witness ==
    /\ Done
    /\ path = "phase1"
    /\ ret.err = Nil
    /\ ret.result.WeightedConfidence = Threshold
    /\ ret.result.ScaleFactor = <<16, 1>>

\* the largest of a non-empty set of rationals
QMax(S) == CHOOSE x \in S : \A y \in S : QLe(y, x)

\* C2: when a Phase 2 search ends and no outcome reached 0.66, the returned
\* weightedConfidence is the maximum over the Phase 1 result and the
\* successful attempts of all candidate angles, a value fixed by the inputs
\* alone (so the same for every completion order); failed attempts take no
\* part, and the result is the Phase 1 result or one of the outcomes.
C2_ExhaustionReturnsMax ==
    (Done /\ path = "phase2" /\ AcceptedSent = {}) =>
        /\ ret.err = Nil
        /\ ret.result.WeightedConfidence =
             QMax({Phase1Wc} \cup
                  { AttemptWc(a) : a \in { b \in CandidateSet : AttemptSucceeds(b) } })
        /\ \/ ret.result.Angle = 0
           \/ \E i \in Successes : ret.result = sent[i].result

C2_Witness ==
    /\ Done /\ path = "phase2" /\ AcceptedSent = {}
    /\ ret.result.Angle # 0
    /\ \E i \in 1..Len(sent) : sent[i].err # Nil
    /\ QGt(ret.result.WeightedConfidence, Phase1Wc)

\* C3: once an outcome with weightedConfidence >= 0.66 has been produced
\* (sent), no worker dequeues a further angle.
C3_NoPullAfterAccepted ==
    [][ AcceptedSent # {} => busy' \subseteq busy ]_vars

\* C4 as stated: once the collector has received an accepted outcome it can
\* return at once, whatever the workers are doing.
C4_ReturnsWithoutWaiting ==
    pc = "drain" => ENABLED ReturnWinner

\* C4 as amended: a search in which an accepted outcome was produced returns
\* the first accepted outcome received, unchanged, and returns only after
\* the results channel has been closed and emptied, that is after all
\* workers have exited; while the collector waits it holds that outcome.
C4_ReturnsFirstAcceptedAfterDrain ==
    /\ pc = "drain" =>
         /\ AcceptedSent # {}
         /\ winner = sent[FirstAccepted].result
         /\ nTaken >= FirstAccepted
    /\ (Done /\ path = "phase2" /\ AcceptedSent # {}) =>
         /\ ret = [result |-> sent[FirstAccepted].result, err |-> Nil]
         /\ resultsClosed
         /\ nTaken = Len(sent)
         /\ exited = numWorkers

C4_Witness ==
    /\ Done /\ path = "phase2" /\ AcceptedSent # {}
    /\ FirstAccepted < Len(sent)
    /\ QGt(sent[Len(sent)].result.WeightedConfidence,
           sent[FirstAccepted].result.WeightedConfidence)

\* The adapter of C5: the attempt at 90 yields 0.9, the attempt at every
\* other angle (0 included) succeeds with a value below bound.
Only90Above(bound) ==
    /\ 90 \in CandidateSet
    /\ Phase1Succeeds
    /\ \A a \in CandidateSet : AttemptSucceeds(a)
    /\ AttemptWc(90) = <<9, 10>>
    /\ QLt(Phase1Wc, bound)
    /\ \A a \in CandidateSet \ {90} : QLt(AttemptWc(a), bound)

\* C5 as stated: if angle 90 yields 0.9 and every other angle a lower value,
\* the returned angle is 90.
C5_Returns90IfOthersLower ==
    (Done /\ Only90Above(<<9, 10>>)) => ret.result.Angle = 90

\* C5 as amended: if angle 90 yields 0.9 and every other angle a value below
\* 0.66, the returned result is the 0.9 one, with angle 90, in every
\* interleaving.
C5_Returns90IfOthersBelowThreshold ==
    (Done /\ Only90Above(Threshold)) =>
        /\ ret.err = Nil
        /\ ret.result.Angle = 90
        /\ ret.result.WeightedConfidence = <<9, 10>>

C5_Witness ==
    /\ Done /\ Only90Above(Threshold)
    /\ ret.result.Angle = 90
    /\ Len(sent) = NumCandidates
    /\ sent[Len(sent)].angle # 90

\* The Phase 1 result as DetectText hands it to the search.
Phase1Result ==
    [detectTextSingle(ocrOf[0]).result EXCEPT
       !.Angle = 0,
       !.ScaleFactor = preprocessImage(imageData).scaleFactor]

\* How many outcomes the collector's comparing loop has received: all it
\* took, up to and including the first accepted one.
Compared ==
    IF AcceptedSent # {} /\ FirstAccepted <= nTaken THEN FirstAccepted ELSE nTaken

IsSuccess(rr) == rr.err = Nil
\* Phase 1's result followed by the successful results compared, in the
\* order received.
Examined ==
    LET ok == SelectSeq(SubSeq(sent, 1, Compared), IsSuccess)
    IN  << Phase1Result >> \o [i \in 1..Len(ok) |-> ok[i].result]

\* the first element of seq whose weightedConfidence is the largest
FirstMax(seq) ==
    LET i == CHOOSE k \in 1..Len(seq) :
               /\ \A j \in 1..Len(seq) :
                    QLe(seq[j].WeightedConfidence, seq[k].WeightedConfidence)
               /\ \A j \in 1..(k - 1) :
                    QLt(seq[j].WeightedConfidence, seq[k].WeightedConfidence)
    IN  seq[i]

\* C6: the collector's best-so-far is always the FIRST result, counting
\* Phase 1's as received before all others, that attains the largest
\* weightedConfidence among those compared: it is replaced only by a strictly
\* greater one, a tie keeps the earlier result (Phase 1's angle 0 included),
\* and that result is the one returned.
C6_StrictlyGreaterKeepsFirst ==
    path = "phase2" =>
        /\ bestResult = FirstMax(Examined)
        /\ Done => ret.result = FirstMax(Examined)

C6_Witness ==
    /\ Done /\ path = "phase2"
    /\ Len(sent) = 2
    /\ Successes = {1, 2}
    /\ sent[1].result.WeightedConfidence = sent[2].result.WeightedConfidence
    /\ QGt(sent[1].result.WeightedConfidence, Phase1Wc)
    /\ sent[1].angle = 90
    /\ ret.result.Angle = 90

\* C7: DetectText returns an error exactly when the bytes do not decode and
\* the raw detect call fails, or the Phase 1 encode or detect call fails;
\* a Phase 2 search never returns an error, and when every angle fails it
\* returns the Phase 1 result.
C7_ErrorIffFallbackOrPhase1Fails ==
    Done =>
        /\ (ret.err # Nil) <=>
             \/ ~imageData.decodes /\ ocrRaw.err
             \/ Phase1Reached /\ ocrOf[0].err
             \/ imageData.decodes /\ imageData.w > 32 /\ imageData.h > 32
                  /\ 0 \in encFails
        /\ path = "phase2" =>
             /\ ret.err = Nil
             /\ Successes = {} => ret.result = Phase1Result

C7_Witness ==
    /\ Done /\ path = "phase2"
    /\ Len(sent) = NumCandidates
    /\ Successes = {}
    /\ \E i \in 1..Len(sent) : sent[i].err = "encode"
    /\ \E i \in 1..Len(sent) : sent[i].err = "ocr"
    /\ ret.err = Nil

\* C8: for bytes that do not decode, the engine is called once, on the raw
\* bytes, and its result is returned with angle 0 and scale factor 0; the
\* preprocessor is never called and no search starts, whatever the result's
\* weightedConfidence.
C8_UndecodableFallsBackToRaw ==
    ~imageData.decodes =>
        /\ preprocessCalls = 0
        /\ \A k \in Keys : detectCalls[k] = 0
        /\ NoWorkerStarted
        /\ detectCalls[RawKey] = (IF Done THEN 1 ELSE 0)
        /\ (Done /\ ~ocrRaw.err) =>
             /\ ret.err = Nil
             /\ ret.result = [detectTextSingle(ocrRaw).result EXCEPT
                                !.Angle = 0, !.ScaleFactor = Zero]
             /\ ret.result.Angle = 0
             /\ ret.result.ScaleFactor = Zero

C8_Witness ==
    /\ Done /\ ~imageData.decodes
    /\ ret.err = Nil
    /\ ret.result.Boxes # << >>
    /\ QLt(ret.result.WeightedConfidence, Threshold)

C10_NoWorkerLeftAfterReturn ==
    (Done /\ path = "phase2") =>
        /\ resultsClosed
        /\ Len(resultsChan) = 0
        /\ exited = numWorkers
        /\ idle = 0
        /\ busy = {}
        /\ ~panicked

C10_Witness ==
    /\ Done /\ path = "phase2"
    /\ AcceptedSent # {}
    /\ FirstAccepted < Len(sent)
    /\ exited = numWorkers

\* C11: the cancellation signal is set when a worker produces an accepted
\* outcome: ctx is done in every state in which an outcome with
\* weightedConfidence >= 0.66 has been sent.
C11_CancelledOnceAccepted ==
    AcceptedSent # {} => ctxDone

\* C12: during a search the job queue and the results channel never hold
\* more items than there are candidate angles, and a send never blocks: the
\* queue has a free slot whenever the dispatcher has an angle left to enqueue
\* and the results channel has one whenever a worker is in an attempt,
\* however few outcomes the collector has taken.
C12_ChannelsNeverBlock ==
    path = "phase2" =>
        /\ Len(anglesChan) <= NumCandidates
        /\ Len(resultsChan) <= NumCandidates
        /\ (dispPc = "run" /\ dispIdx <= NumCandidates) => Len(anglesChan) < ChanCap
        /\ busy # {} => Len(resultsChan) < ChanCap

C12_Witness ==
    /\ pc = "collect"
    /\ nTaken = 0
    /\ Len(resultsChan) = NumCandidates
    /\ exited < numWorkers

\* ------------------------------------------------ results of the attempts
\* The detection attempts whose result is held somewhere in this state, each
\* with the engine's answer it was computed from: the raw fallback, the
\* unrotated attempt, the outcomes sent by the workers, the collector's best
\* and the returned result.
Attempts ==
    (IF path = "fallback" /\ ret.err = Nil
       THEN {[in |-> ocrRaw, out |-> ret.result]} ELSE {})
    \cup (IF path \in {"phase1", "phase2"} /\ Done /\ ret.err = Nil
            THEN {[in |-> ocrOf[ret.result.Angle], out |-> ret.result]} ELSE {})
    \cup (IF path = "phase2"
            THEN {[in |-> ocrOf[bestResult.Angle], out |-> bestResult]} ELSE {})
    \cup { [in |-> ocrOf[sent[i].angle], out |-> sent[i].result] : i \in Successes }

\* every ClassifierResult in this state, the too-small result included
Results ==
    { a.out : a \in Attempts }
      \cup (IF Done /\ ret.err = Nil THEN {ret.result} ELSE {})

InUnit(x) == QGe(x, Zero) /\ QLe(x, One)

\* the regions of an answer that the claim calls retained
Kept(region) == region.Confidence # 0 /\ countTokens(region.Word) # 0
Retained(regions) == SelectSeq(regions, Kept)

SumTokens(boxes) ==
    LET f[i \in 0..Len(boxes)] ==
          IF i = 0 THEN 0 ELSE f[i - 1] + countTokens(boxes[i].Word)
    IN  f[Len(boxes)]
\* sum of r_i and of r_i * t_i over regions
SumConf(regions) ==
    LET f[i \in 0..Len(regions)] ==
          IF i = 0 THEN 0 ELSE f[i - 1] + regions[i].Confidence
    IN  f[Len(regions)]
SumConfTokens(regions) ==
    LET f[i \in 0..Len(regions)] ==
          IF i = 0 THEN 0
          ELSE f[i - 1] + regions[i].Confidence * countTokens(regions[i].Word)
    IN  f[Len(regions)]

\* C13: meanConfidence and weightedConfidence of every result computed from
\* an answer of the engine, and of the result DetectText returns on any path,
\* lie in [0,1].
C13_ConfidencesInUnitInterval ==
    \A r \in Results :
        InUnit(r.MeanConfidence) /\ InUnit(r.WeightedConfidence)

C13_Witness ==
    /\ Done /\ path = "fallback" /\ ret.err = Nil
    /\ \A i \in 1..Len(ocrRaw.boxes) : ocrRaw.boxes[i].Confidence = 100
    /\ Len(ret.result.Boxes) = MaxBoxes
    /\ ret.result.MeanConfidence = One
    /\ ret.result.WeightedConfidence = One

\* C14: tokenCount of every result is the sum of countTokens(box.word) over
\* the boxes of that result, 0 when it has none.
C14_TokenCountIsSumOverBoxes ==
    \A r \in Results : r.TokenCount = SumTokens(r.Boxes)

C14_Witness ==
    /\ Done /\ path = "fallback" /\ ret.err = Nil
    /\ Len(ocrRaw.boxes) = 2
    /\ ocrRaw.boxes[1].Confidence = 0 /\ countTokens(ocrRaw.boxes[1].Word) = 2
    /\ Len(ret.result.Boxes) = 1
    /\ ret.result.TokenCount = 4

\* C15: the boxes of a result are exactly the regions of the engine's answer
\* with non-zero raw confidence and non-zero token count, in the answer's
\* order, and meanConfidence, weightedConfidence and tokenCount are those of
\* the answer with the other regions removed.
C15_BoxesAreRetainedRegions ==
    \A a \in Attempts :
        LET R    == Retained(a.in.boxes)
            only == detectTextSingle(Regions(R)).result
        IN  /\ Len(a.out.Boxes) = Len(R)
            /\ \A i \in 1..Len(R) :
                 /\ a.out.Boxes[i].Word = R[i].Word
                 /\ a.out.Boxes[i].Confidence = Q(R[i].Confidence, 100)
            /\ a.out.MeanConfidence = only.MeanConfidence
            /\ a.out.WeightedConfidence = only.WeightedConfidence
            /\ a.out.TokenCount = only.TokenCount

C15_Witness ==
    /\ Done /\ path = "fallback" /\ ret.err = Nil
    /\ Len(ocrRaw.boxes) = 2
    /\ ocrRaw.boxes[1].Confidence = 40 /\ countTokens(ocrRaw.boxes[1].Word) = 0
    /\ ocrRaw.boxes[2].Confidence = 100
    /\ Len(ret.result.Boxes) = 1
    /\ ret.result.MeanConfidence = One

\* C16: with r_i the raw confidences and t_i the token counts of the n > 0
\* retained regions, meanConfidence is sum(r_i) / (100 n) and
\* weightedConfidence is sum(r_i t_i / 100) / sum(t_i), each clamped to [0,1].
C16_MeanAndWeightedFormulas ==
    \A a \in Attempts :
        LET R == Retained(a.in.boxes)
        IN  Len(R) > 0 =>
              /\ a.out.MeanConfidence = Clamp01(Q(SumConf(R), 100 * Len(R)))
              /\ a.out.WeightedConfidence =
                   Clamp01(Q(SumConfTokens(R), 100 * SumTokens(R)))

C16_Witness ==
    /\ Done /\ path = "fallback" /\ ret.err = Nil
    /\ Len(ret.result.Boxes) = 2
    /\ ret.result.MeanConfidence = Q(7, 10)
    /\ ret.result.WeightedConfidence = Q(22, 25)

\* the 19 candidate angles
AllAngles == { phase2Angles[i] : i \in 1..Len(phase2Angles) }

\* C17: the angle of the returned result is the angle of the attempt that
\* produced it: 0 for the fallback, too-small and Phase 1 results, and for a
\* result of the search the angle of the job whose outcome it is (or 0 when it
\* is the Phase 1 result); every outcome carries its job's angle, and the
\* angle is 0 or one of the 19 candidates.
C17_AngleIsAttemptAngle ==
    /\ Len(phase2Angles) = 19
    /\ \A i \in Successes :
         /\ sent[i].result.Angle = sent[i].angle
         /\ sent[i].result.Boxes = detectTextSingle(ocrOf[sent[i].angle]).result.Boxes
    /\ (Done /\ ret.err = Nil) =>
         /\ ret.result.Angle \in {0} \cup AllAngles
         /\ path \in {"fallback", "tooSmall", "phase1"} => ret.result.Angle = 0
         /\ path = "phase2" =>
              \/ ret.result = Phase1Result
              \/ \E i \in Successes :
                   /\ ret.result = sent[i].result
                   /\ ret.result.Angle = sent[i].angle

C17_Witness ==
    /\ Done /\ path = "phase2" /\ ret.err = Nil
    /\ ret.result.Angle = 85
    /\ ocrOf[85] # ocrOf[90] /\ ocrOf[85] # ocrOf[0]

\* ------------------------------------------------------ countTokens rules
\* The rule of the claim for rune i of text w: a Latin or Cyrillic letter or
\* a digit; '.' or ',' between digits; a sign before a digit; a degree sign
\* after a digit; a currency symbol next to a digit.
LetterRunes == LatinRunes \cup {CyrillicYa}
DigitAt(w, i) == i >= 1 /\ i <= Len(w) /\ w[i] \in DigitRunes
RuleCounts(w, i) ==
    \/ w[i] \in LetterRunes
    \/ w[i] \in DigitRunes
    \/ w[i] \in {".", ","} /\ DigitAt(w, i - 1) /\ DigitAt(w, i + 1)
    \/ w[i] \in {"+", "-", UnicodeMinus} /\ DigitAt(w, i + 1)
    \/ w[i] = DegreeSign /\ DigitAt(w, i - 1)
    \/ w[i] \in CurrencyRunes /\ (DigitAt(w, i - 1) \/ DigitAt(w, i + 1))
RuleCount(w) == Cardinality({ i \in 1..Len(w) : RuleCounts(w, i) })

\* the fallback attempt on a single region of confidence 100 has returned
TokensCounted ==
    /\ Done /\ path = "fallback" /\ ret.err = Nil
    /\ Len(ocrRaw.boxes) = 1
    /\ ocrRaw.boxes[1].Confidence = 100
TextCounted == ocrRaw.boxes[1].Word
HasNonLetterScriptRune(w) == \E i \in 1..Len(w) : w[i] = CyrillicThousands

\* C18: the token count of a text is the number of its characters that the
\* rule of the claim counts; "3.14" gives 4, "$100" 4, "hello!" 5, "--" 0.
C18_CountTokensMatchesRule ==
    /\ countTokens(<<"3", ".", "1", "4">>) = 4
    /\ countTokens(<<"$", "1", "0", "0">>) = 4
    /\ countTokens(<<"h", "e", "l", "l", "o", "!">>) = 5
    /\ countTokens(<<"-", "-">>) = 0
    /\ TokensCounted => ret.result.TokenCount = RuleCount(TextCounted)

\* the same on the texts whose Latin- and Cyrillic-script runes are letters
CountTokensMatchesRuleOnLetters ==
    (TokensCounted /\ ~HasNonLetterScriptRune(TextCounted)) =>
        ret.result.TokenCount = RuleCount(TextCounted)

\* ------------------------------------------------------------ scale factor
\* DetectText has returned a result for which the preprocessor ran.
ScaleReturned ==
    Done /\ path \in {"phase1", "phase2"} /\ ret.err = Nil
PixelCount == imageData.w * imageData.h
\* ScaleFactor holds the square of the factor: 16, 9, 9/4 and 1 stand for
\* 4.0, 3.0, 1.5 and 1.0.
Factor40 == Q(16, 1)
Factor30 == Q(9, 1)
Factor15 == Q(9, 4)
Factor10 == Q(1, 1)

\* C19 as stated: the scale factor follows the table with 1 MP = 1,000,000
\* pixels: 4.0 below 0.5 MP, 3.0 in [0.5, 1) MP, 1.5 in [1, 2) MP, 1.0 in
\* [2, 3] MP and a factor below 1.0 above 3 MP.
C19_ScaleTableDecimal ==
    ScaleReturned =>
        LET sf == ret.result.ScaleFactor
            p  == PixelCount
        IN  /\ p < 500000 => sf = Factor40
            /\ (500000 <= p /\ p < 1000000) => sf = Factor30
            /\ (1000000 <= p /\ p < 2000000) => sf = Factor15
            /\ (2000000 <= p /\ p <= 3000000) => sf = Factor10
            /\ p > 3000000 => (QGt(sf, Zero) /\ QLt(sf, One))

\* C19, amended: the same table with 1 MP = 1,048,576 pixels; 400x400 gives
\* 4.0 and 1600x1600 gives 1.0.
C19_ScaleTableBinary ==
    ScaleReturned =>
        LET sf == ret.result.ScaleFactor
            p  == PixelCount
        IN  /\ p < 524288 => sf = Factor40
            /\ (524288 <= p /\ p < 1048576) => sf = Factor30
            /\ (1048576 <= p /\ p < 2097152) => sf = Factor15
            /\ (2097152 <= p /\ p <= 3145728) => sf = Factor10
            /\ p > 3145728 => (QGt(sf, Zero) /\ QLt(sf, One))
            /\ imageData = Raster(400, 400) => sf = Factor40
            /\ imageData = Raster(1600, 1600) => sf = Factor10

C19_Witness ==
    /\ ScaleReturned
    /\ imageData = Raster(1000, 500)
    /\ ret.result.ScaleFactor = Factor40

\* C20 as stated: above 3,000,000 pixels the factor s satisfies
\* s * s * pixels = 3,000,000.
C20_DownscaleToThreeMillion ==
    (ScaleReturned /\ PixelCount > 3000000) =>
        ret.result.ScaleFactor = Q(3000000, PixelCount)

\* C20, amended: above 3,145,728 pixels the factor s satisfies
\* s * s * pixels = 3,145,728; for 4000x4000 s * s = 0.196608, so that
\* 0.4434 <= s < 0.4435.
C20_DownscaleToThreeBinaryMP ==
    (ScaleReturned /\ PixelCount > 3145728) =>
        /\ ret.result.ScaleFactor = Q(3145728, PixelCount)
        /\ imageData = Raster(4000, 4000) =>
             /\ ret.result.ScaleFactor = Q(196608, 1000000)
             /\ 4434 * 4434 <= 19660800
             /\ 19660800 < 4435 * 4435

C20_Witness ==
    /\ ScaleReturned
    /\ imageData = Raster(4000, 4000)
    /\ ret.result.ScaleFactor = Q(3072, 15625)

\* ------------------------------------------------------------ HTTP claims
AcceptedType(req) == req.contentType = "image/jpeg" \/ req.contentType = "image/png"
\* the four conditions of the claim
PassesChecks(req) ==
    req.method = "POST" /\ AcceptedType(req) /\ ~req.readErr /\ ~req.empty
CoreUntouched ==
    /\ pc = "idle"
    /\ \A k \in CallKeys : detectCalls[k] = 0
    /\ preprocessCalls = 0

\* C21: Classify calls DetectText at most once, and only for a POST request
\* with an accepted Content-Type whose body was read and is not empty; the
\* body is read only after the method and the Content-Type were accepted; a
\* request failing a check never reaches the core.
C21_CoreOnlyAfterChecks ==
    /\ coreCalls <= 1
    /\ bodyReads <= 1
    /\ bodyReads = 1 => (request.method = "POST" /\ AcceptedType(request))
    /\ coreCalls = 1 => (bodyReads = 1 /\ PassesChecks(request))
    /\ ~PassesChecks(request) => (coreCalls = 0 /\ CoreUntouched)
    /\ ~CoreUntouched => coreCalls = 1

C21_Witness ==
    /\ hpc = "responded"
    /\ coreCalls = 1
    /\ path = "phase2"
    /\ detectCalls[90] = 1

\* the status the claim gives to a request
ClaimedStatus ==
    IF request.method # "POST" THEN 405
    ELSE IF ~AcceptedType(request) THEN 400
    ELSE IF request.readErr \/ request.empty THEN 400
    ELSE IF ret.err # Nil THEN 500
    ELSE 200

\* C22: Classify writes one status per request: 405 for a method other than
\* POST whatever else the request holds, else 400 for a Content-Type not
\* accepted, else 400 for an unreadable or empty body, else 500 when
\* DetectText fails, else 200 with the serialized result.
C22_OneStatusPerRequest ==
    /\ headerWrites <= 1
    /\ hpc # "responded" => (headerWrites = 0 /\ response = NoResponse)
    /\ hpc = "responded" =>
         /\ headerWrites = 1
         /\ response.status = ClaimedStatus
         /\ response.status = 200 =>
              /\ response.result.weighted_confidence = ret.result.WeightedConfidence
              /\ response.result.angle = ret.result.Angle
              /\ Len(response.result.boxes) = Len(ret.result.Boxes)

C22_Witness ==
    /\ hpc = "responded"
    /\ request.method = "GET"
    /\ request.contentType = "image/gif"
    /\ request.empty /\ request.readErr
    /\ response.status = 405

\* the errors DetectText returns
CoreErrors == {"ocr", "encode"}

\* C23: when DetectText fails, the response is status 500 with one fixed
\* message, the same for every error.
C23_FailureResponseIsGeneric ==
    /\ \A e1, e2 \in CoreErrors : CoreFailure(e1) = CoreFailure(e2)
    /\ (hpc = "responded" /\ coreCalls = 1 /\ ret.err # Nil) =>
         response = [status |-> 500, error |-> "failed to process image",
                     result |-> NilResult]

C23_Witness ==
    /\ hpc = "responded"
    /\ ret.err = "encode"
    /\ response.status = 500

\* ---------------------------------------------------------- result fields
\* C24: every box of every result has confidence in [0,1].
C24_BoxConfidenceInUnitInterval ==
    \A r \in Results :
        \A i \in 1..Len(r.Boxes) : InUnit(r.Boxes[i].Confidence)

C24_Witness ==
    /\ Done /\ path = "fallback" /\ ret.err = Nil
    /\ Len(ret.result.Boxes) = 2
    /\ ret.result.Boxes[1].Confidence = One
    /\ ret.result.Boxes[2].Confidence = Q(2, 5)

\* preprocessing is skipped: the bytes do not decode or a dimension is too small
PreprocessingSkipped ==
    ~imageData.decodes \/ imageData.w <= 32 \/ imageData.h <= 32
PreprocessorFactor == preprocessImage(imageData).scaleFactor

\* C25: the returned scaleFactor is 0 exactly when preprocessing was skipped;
\* otherwise it is the preprocessor's factor, which is not 0 and is carried by
\* the Phase 1 result and by every Phase 2 outcome alike.
C25_ScaleFactorZeroIffSkipped ==
    /\ (Done /\ ret.err = Nil) =>
         /\ ret.result.ScaleFactor = Zero <=> PreprocessingSkipped
         /\ PreprocessingSkipped <=> path \in {"fallback", "tooSmall"}
         /\ ~PreprocessingSkipped => ret.result.ScaleFactor = PreprocessorFactor
    /\ path = "phase2" =>
         /\ PreprocessorFactor # Zero
         /\ bestResult.ScaleFactor = PreprocessorFactor
         /\ \A i \in Successes : sent[i].result.ScaleFactor = PreprocessorFactor

C25_Witness ==
    /\ Done /\ path = "phase2" /\ ret.err = Nil
    /\ ret.result.Angle = 85
    /\ imageData = Raster(33, 33)
    /\ ret.result.ScaleFactor = Q(16, 1)

\* the results the collector has been given: Phase 1's and the successful
\* outcomes it has received
GivenToCollector ==
    {Phase1Result} \cup { sent[i].result : i \in { j \in Successes : j <= nTaken } }

\* C26 as stated: no field of a result returned by detectTextSingle is ever
\* written: every result held is the value detectTextSingle built.
C26_NeverWritten ==
    \A a \in Attempts : a.out = detectTextSingle(a.in).result

\* C26, amended: of a result built by detectTextSingle only Angle and
\* ScaleFactor are written, by the caller that made the attempt and before
\* the result is handed on; the collector's best, the accepted result it
\* holds and the result it returns are results it was given, unchanged.
C26_OnlyAngleAndScaleWritten ==
    /\ \A a \in Attempts :
         a.out = [detectTextSingle(a.in).result EXCEPT
                    !.Angle = a.out.Angle, !.ScaleFactor = a.out.ScaleFactor]
    /\ path = "phase2" =>
         /\ bestResult \in GivenToCollector
         /\ winner # NilResult => winner \in GivenToCollector
         /\ Done => ret.result \in GivenToCollector

C26_Witness ==
    /\ Done /\ path = "phase2" /\ ret.err = Nil
    /\ pc = "done" /\ winner # NilResult
    /\ ret.result.Angle = 90
    /\ ret.result = sent[1].result
    /\ Len(sent) = 2

\* ------------------------------------------------------- the worker pool
\* the angles enqueued so far, those still queued, and those dequeued
Dispatched == { Candidates[i] : i \in 1..(dispIdx - 1) }
Queued == { anglesChan[i] : i \in 1..Len(anglesChan) }
Dequeued == Dispatched \ Queued
OutcomesFor(a) == { i \in 1..Len(sent) : sent[i].angle = a }

\* C27: no attempt in progress is interrupted: a dequeued angle is either in
\* an attempt, which can always send its outcome, or has exactly one outcome
\* on the results channel, also when another worker has produced an accepted
\* result in the meantime; no attempt is left when all workers have returned.
C27_DequeuedAngleGetsOneOutcome ==
    /\ \A a \in Dequeued :
         \/ a \in busy /\ OutcomesFor(a) = {}
         \/ a \notin busy /\ Cardinality(OutcomesFor(a)) = 1
    /\ busy # {} => (Len(resultsChan) < ChanCap /\ ~resultsClosed)
    /\ exited = numWorkers => busy = {}
    /\ Done => \A a \in Dequeued : Cardinality(OutcomesFor(a)) = 1

C27_Witness ==
    /\ path = "phase2"
    /\ AcceptedSent # {}
    /\ FirstAccepted = 1
    /\ Len(sent) = 2
    /\ Cardinality(busy) = 2
    /\ Cardinality(Dequeued) = numWorkers

\* C28: every candidate angle is enqueued at most once and dequeued by at
\* most one worker: it is at most once in the queue, in an attempt or among
\* the outcomes, the engine is asked at most once per angle, also after a
\* failed attempt, and there are never more outcomes than candidates.
C28_EachAngleAttemptedAtMostOnce ==
    /\ dispIdx - 1 <= NumCandidates
    /\ \A i, j \in 1..Len(anglesChan) : anglesChan[i] = anglesChan[j] => i = j
    /\ Queued \subseteq Dispatched
    /\ busy \subseteq Dequeued
    /\ \A a \in CandidateSet :
         /\ Cardinality(OutcomesFor(a)) <= 1
         /\ detectCalls[a] <= 1
         /\ a \notin Dispatched => (OutcomesFor(a) = {} /\ detectCalls[a] = 0)
    /\ Len(sent) <= NumCandidates
    /\ NumCandidates <= 19

C28_Witness ==
    /\ Done /\ path = "phase2"
    /\ Len(sent) = NumCandidates
    /\ sent[1].err # Nil
    /\ detectCalls[sent[1].angle] = 1
    /\ \A a \in CandidateSet : Cardinality(OutcomesFor(a)) = 1

\* C29: a worker whose encode or detect step fails sends an error outcome and
\* goes on to the next angle: while angles may still arrive, the only workers
\* that have returned are those that sent an accepted result, and unless all
\* workers returned on accepted results every candidate angle gets its
\* outcome, failed ones included.
QueueDrained == anglesClosed /\ Len(anglesChan) = 0

C29_FailureStopsNeitherWorkerNorSearch ==
    /\ (path = "phase2" /\ ~ctxDone /\ ~QueueDrained)
         => exited = Cardinality(AcceptedSent)
    /\ (Done /\ path = "phase2" /\ Cardinality(AcceptedSent) < numWorkers)
         => /\ Len(sent) = NumCandidates
            /\ \A a \in CandidateSet : Cardinality(OutcomesFor(a)) = 1

C29_Witness ==
    /\ path = "phase2"
    /\ Len(sent) = 1
    /\ sent[1].err # Nil
    /\ sent[1].result = NilResult
    /\ Cardinality(busy) = numWorkers
    /\ exited = 0

\* C30: at most numWorkers attempts are in flight at a time, one per worker:
\* the workers that wait, those that are in an attempt and those that have
\* returned are always the numWorkers that were started.
C30_AtMostFourAttemptsInFlight ==
    /\ numWorkers = 4
    /\ Cardinality(busy) <= numWorkers
    /\ idle >= 0 /\ exited >= 0
    /\ idle + Cardinality(busy) + exited = (IF path = "phase2" THEN numWorkers ELSE 0)

C30_Witness ==
    /\ path = "phase2"
    /\ Cardinality(busy) = numWorkers
    /\ Len(anglesChan) > 0
    /\ idle = 0 /\ exited = 0

\* ------------------------------------------------------------- cancellation
\* C31: in the classifier.go variant, once cancel() has been called the
\* dispatcher enqueues no further angle and no worker dequeues a further
\* angle: no step taken with ctx done lengthens the queue or starts an
\* attempt.
C31_NoNewWorkAfterCancel ==
    [][ctxDone => /\ dispIdx' = dispIdx \/ Len(anglesChan') <= Len(anglesChan)
                  /\ busy' \subseteq busy]_vars

\* after cancel(): the dispatcher enqueues no further angle
C31_NoEnqueueAfterCancel ==
    [][ctxDone => (dispIdx' = dispIdx \/ Len(anglesChan') <= Len(anglesChan))]_vars

\* after cancel(): no worker starts a further angle
C31_NoDequeueAfterCancel == [][ctxDone => busy' \subseteq busy]_vars

\* -------------------------------------------------------------- termination
\* every goroutine of the search is over and the collector has returned
AllFinished ==
    /\ Done
    /\ dispPc = "done" /\ anglesClosed
    /\ idle = 0 /\ busy = {} /\ exited = numWorkers
    /\ resultsClosed
    /\ ~panicked

\* C32: every DetectText call terminates: the dispatcher, the four workers
\* and the closing goroutine finish and the collector returns, whatever the
\* outcomes of the attempts and the interleaving.
C32_SearchTerminates == <>AllFinished

\* all four workers returned on accepted results and an angle is left queued
C32_Witness ==
    /\ AllFinished
    /\ Cardinality(AcceptedSent) = numWorkers
    /\ Len(sent) = numWorkers
    /\ Len(anglesChan) > 0

\* --------------------------------------------------------- closing channels
\* C33: resultsChan is closed once, by the closing goroutine and only after
\* all numWorkers workers have returned; anglesChan is closed once, by the
\* dispatcher as its last step; a closed channel stays closed, no worker
\* sends on the closed resultsChan and no channel is closed twice (either
\* would panic).
C33_ChannelsClosedOnceAndInOrder ==
    /\ [](resultsClosed => (exited = numWorkers /\ busy = {} /\ idle = 0))
    /\ [](anglesClosed <=> dispPc = "done")
    /\ [](~panicked)
    /\ []((Done /\ path = "phase2") => resultsClosed)
    /\ [][resultsClosed => resultsClosed']_vars
    /\ [][anglesClosed => anglesClosed']_vars
    /\ [][(~resultsClosed /\ resultsClosed')
            => (exited = numWorkers /\ UNCHANGED << sent, anglesClosed >>)]_vars
    /\ [][(~anglesClosed /\ anglesClosed')
            => (dispPc = "run" /\ dispPc' = "done" /\ UNCHANGED resultsClosed)]_vars
    /\ [][resultsClosed => UNCHANGED sent]_vars

C33_Witness ==
    /\ Done /\ path = "phase2"
    /\ resultsClosed /\ anglesClosed
    /\ exited = numWorkers
    /\ Len(sent) = NumCandidates
    /\ ~panicked

\* ------------------------------------------------------ accepted or not
\* the image decodes and no dimension is too small
DecodedPath == path \in {"phase1", "phase2"}
ReturnsAccepted ==
    ret.err = Nil /\ QGe(ret.result.WeightedConfidence, Threshold)
AcceptedProduced ==
    \/ Phase1Succeeds /\ QGe(Phase1Wc, Threshold)
    \/ path = "phase2" /\ AcceptedSent # {}

\* C34: on the decoded, not-too-small path DetectText returns a result with
\* weightedConfidence >= 0.66 exactly when Phase 1 or a successful Phase 2
\* attempt produced one; it never returns a result below the threshold while
\* an accepted outcome was produced.
C34_AcceptedIffProduced ==
    (Done /\ DecodedPath) =>
        /\ ReturnsAccepted <=> AcceptedProduced
        /\ AcceptedProduced => ret.err = Nil
        /\ (ret.err = Nil /\ ~ReturnsAccepted) =>
             /\ ~(Phase1Succeeds /\ QGe(Phase1Wc, Threshold))
             /\ \A i \in Successes :
                  QLt(sent[i].result.WeightedConfidence, Threshold)

C34_Witness ==
    /\ Done /\ path = "phase2"
    /\ AcceptedSent # {}
    /\ Successes \ AcceptedSent # {}
    /\ ReturnsAccepted
    /\ ~QGe(Phase1Wc, Threshold)

\* ------------------------------------------------------ boxes and tokens
\* C35: in every result of a detection attempt boxes is non-empty exactly
\* when tokenCount >= 1, and then tokenCount >= the number of boxes (the
\* divisor of the weighted confidence is not zero); with no boxes the mean
\* confidence, the weighted confidence and tokenCount are 0.
C35_BoxesIffTokens ==
    \A r \in Results :
        /\ Len(r.Boxes) > 0 <=> r.TokenCount >= 1
        /\ Len(r.Boxes) > 0 => r.TokenCount >= Len(r.Boxes)
        /\ \A i \in 1..Len(r.Boxes) : countTokens(r.Boxes[i].Word) >= 1
        /\ Len(r.Boxes) = 0 =>
             /\ r.MeanConfidence = Zero
             /\ r.WeightedConfidence = Zero
             /\ r.TokenCount = 0

C35_Witness ==
    /\ Done /\ path = "fallback" /\ ret.err = Nil
    /\ Len(ocrRaw.boxes) = 2
    /\ Len(ret.result.Boxes) = 2
    /\ ret.result.TokenCount = 3
    /\ countTokens(ret.result.Boxes[1].Word) = 1

\* ------------------------------------------------------------ concatenation
\* the text counted, cut after its first k runes
Front(w, k) == SubSeq(w, 1, k)
Back(w, k)  == SubSeq(w, k + 1, Len(w))
PartsCount(w, k) == countTokens(Front(w, k)) + countTokens(Back(w, k))

\* C36: countTokens(a \o b) >= countTokens(a) + countTokens(b): every rune
\* counted in a or in b alone is counted in the joined text; only a rune at
\* the boundary may become counted.
C36_ConcatenationSuperadditive ==
    TokensCounted =>
        \A k \in 0..Len(TextCounted) :
            LET w == TextCounted
                a == Front(w, k)
                b == Back(w, k)
            IN  /\ a \o b = w
                /\ ret.result.TokenCount >= countTokens(a) + countTokens(b)
                /\ countTokens(w) >= countTokens(a) + countTokens(b)
                /\ \A i \in 1..Len(a) : TokenAt(a, i) => TokenAt(w, i)
                /\ \A j \in 1..Len(b) : TokenAt(b, j) => TokenAt(w, k + j)
                /\ \A i \in 1..Len(w) :
                     (TokenAt(w, i) /\ i # k /\ i # k + 1) =>
                        IF i < k THEN TokenAt(a, i) ELSE TokenAt(b, i - k)

\* "1" joined with ".1": the dot between digits becomes counted
C36_Witness ==
    /\ TokensCounted
    /\ Len(TextCounted) = 3
    /\ ret.result.TokenCount = 3
    /\ PartsCount(TextCounted, 1) = 2
    /\ PartsCount(TextCounted, 2) = 2

\* ------------------------------------------------------ target dimensions
\* the dimensions preprocessImage resizes the decoded image to (line 84); the
\* result carries only the factor
TargetDims == calculateScaleDimensions(imageData.w, imageData.h, PixelCount)
\* n = floor(x * s), for the factor s given as its square sf2
IsFloorOf(n, x, sf2) ==
    /\ n >= 0
    /\ FracLe(n * n, x * x, sf2[1], sf2[2])
    /\ ~FracLe((n + 1) * (n + 1), x * x, sf2[1], sf2[2])

\* C37: for every image with both dimensions above 32 the target dimensions
\* are floor(width * scaleFactor) and floor(height * scaleFactor) for the
\* reported scaleFactor, and above 3 MP the target pixel count never exceeds
\* the three-megapixel threshold; 2048x1023 is resized to 3072x1534,
\* 3000x2000 to 2172x1448 and 4000x4000 to 1773x1773.
C37_TargetDimensionsAreFloors ==
    ScaleReturned =>
        LET sf == ret.result.ScaleFactor
            d  == TargetDims
        IN  /\ imageData.w > 32 /\ imageData.h > 32
            /\ d.scaleFactor = sf
            /\ IsFloorOf(d.newW, imageData.w, sf)
            /\ IsFloorOf(d.newH, imageData.h, sf)
            /\ PixelCount > threeMegapixels => d.newW * d.newH <= threeMegapixels
            /\ imageData = Raster(2048, 1023) => (d.newW = 3072 /\ d.newH = 1534)
            /\ imageData = Raster(3000, 2000) => (d.newW = 2172 /\ d.newH = 1448)
            /\ imageData = Raster(4000, 4000) => (d.newW = 1773 /\ d.newH = 1773)

C37_Witness ==
    /\ ScaleReturned
    /\ imageData = Raster(3000, 2000)
    /\ PixelCount > threeMegapixels
    /\ TargetDims.newW = 2172
    /\ TargetDims.newH = 1448
    /\ TargetDims.newW * TargetDims.newH <= threeMegapixels

====
